---- MODULE Spec2Model ----
(***************************************************************************)
(* Gaminute portfolio site: the HTTP layer (production server, static      *)
(* server revisions, SQLite revision) and the games filter/sort pipeline.  *)
(*                                                                         *)
(* JavaScript strings are tuples of one-character strings, so that         *)
(* toLowerCase, trim, includes and RegExp.test are computed, not assumed.  *)
(* A query parameter or body field that is absent is the value Undefined.  *)
(***************************************************************************)
EXTENDS Integers, Sequences, FiniteSets, TLC

VARIABLES
  PORTFOLIO_GAMES,  \* the catalogue array of the server revision under test
  requests,         \* createRateLimiter: Map ip -> list of admission times
  now,              \* Date.now(), in clock ticks
  isConfigured,     \* EmailService.isConfigured
  conn,             \* per connection: its latest request, the responses sent
                    \* for it, and what its handler is still waiting for
  call,             \* a direct call of a sort function: its argument and result
  client,           \* the page's script (main.js): the state of its modules and
                    \* of the async functions it has started
  passed            \* history: per client IP, the times at which the router
                    \* dispatch let a request of that IP past the rate limiter

vars == <<PORTFOLIO_GAMES, requests, now, isConfigured, conn, call, client, passed>>

----------------------------------------------------------------------------
(* Bounds of the model *)

\* longest catalogue drawn in Init
MaxGames == 3
\* CONFIG.RATE_LIMIT.maxRequests is 100 in the source (server.js:449); the
\* model runs the same limiter with a window that holds this many requests
maxRequests == 2
\* CONFIG.RATE_LIMIT.windowMs is 15 minutes in the source (server.js:448);
\* the model's window is this many clock ticks
windowMs == 2
\* last clock tick
MaxTime == 3
\* longest array handed to a sort function directly
MaxSortLen == 3

----------------------------------------------------------------------------
(* Program constants *)

\* validateContactForm: message.trim().length < 10
minMessageLength == 10
\* validateContactForm: message.length > 2000
maxMessageLength == 2000

----------------------------------------------------------------------------
(* JavaScript values *)

Undefined == <<"#undefined">>

\* !x for a string-or-undefined x
Falsy(x) == x = Undefined \/ x = <<>>

WhiteSpace == {" ", "\t"}

UpperCase == <<"A", "B", "C", "D", "I", "L", "P", "V", "E", "R">>
LowerCase == <<"a", "b", "c", "d", "i", "l", "p", "v", "e", "r">>

toLowerCaseChar(c) ==
  IF \E k \in 1..Len(UpperCase) : UpperCase[k] = c
  THEN LowerCase[CHOOSE k \in 1..Len(UpperCase) : UpperCase[k] = c]
  ELSE c

\* String.prototype.toLowerCase
toLowerCase(s) == [i \in 1..Len(s) |-> toLowerCaseChar(s[i])]

\* String.prototype.trim
trim(s) ==
  IF \A i \in 1..Len(s) : s[i] \in WhiteSpace THEN <<>>
  ELSE SubSeq(s,
         CHOOSE i \in 1..Len(s) :
           s[i] \notin WhiteSpace /\ \A j \in 1..(i - 1) : s[j] \in WhiteSpace,
         CHOOSE i \in 1..Len(s) :
           s[i] \notin WhiteSpace /\ \A j \in (i + 1)..Len(s) : s[j] \in WhiteSpace)

\* String.prototype.includes
includes(s, t) ==
  \E i \in 0..(Len(s) - Len(t)) : SubSeq(s, i + 1, i + Len(t)) = t

\* Array.prototype.filter
filter(arr, Keep(_)) == SelectSeq(arr, Keep)

\* Array.prototype.sort(compare): a stable insertion of each element after
\* the last element that does not compare greater than it
insertSorted(compare(_, _), sorted, x) ==
  LET notAfter == {j \in 1..Len(sorted) : compare(sorted[j], x) <= 0}
      k == IF notAfter = {} THEN 0
           ELSE CHOOSE j \in notAfter : \A i \in notAfter : i <= j
  IN SubSeq(sorted, 1, k) \o <<x>> \o SubSeq(sorted, k + 1, Len(sorted))

sort(arr, compare(_, _)) ==
  LET srt[n \in 0..Len(arr)] ==
        IF n = 0 THEN <<>> ELSE insertSorted(compare, srt[n - 1], arr[n])
  IN srt[Len(arr)]

Range(s) == {s[i] : i \in 1..Len(s)}

\* the order of the model's letters within one case
LetterOrder == <<" ", "a", "A", "b", "B", "x">>

----------------------------------------------------------------------------
(* Game records and the catalogues drawn in Init *)

Live      == <<"L", "i", "v", "e">>
InDev     == <<"I", "n", " ", "D", "e", "v">>
Concept   == <<"C", "o", "n", "c", "e", "p", "t">>
Prototype == <<"P", "r", "o", "t", "o", "t", "y", "p", "e">>
LiveLoud  == <<"L", "I", "V", "E", " ">>
All       == <<"a", "l", "l">>
Arcade    == <<"a", "r", "c", "a", "d", "e">>
Puzzle    == <<"p", "u", "z", "z", "l", "e">>

Game(id, title, description, genre, status, priority) ==
  [id |-> id, title |-> title, description |-> description,
   genre |-> genre, status |-> status, priority |-> priority]

\* Games in the shape of the PORTFOLIO_GAMES entries: ids do not follow
\* the array order, priorities are positive, two Live games share a priority.
GamePool == <<
  Game(1, <<"A", "b">>, <<"x", "a">>, Arcade, Live, 1),
  Game(2, <<"b">>, <<"x", "a">>, Puzzle, Live, 1),
  Game(4, <<"b", "A">>, <<"x">>, Arcade, InDev, 2),
  Game(5, <<"B">>, <<"a", "b">>, Puzzle, Concept, 1),
  Game(3, <<"a">>, <<"x">>, Arcade, LiveLoud, 2),
  Game(6, <<"x">>, <<"A", "x">>, Puzzle, Prototype, 3) >>

\* every array of at most MaxGames distinct pool games, in any order
Catalogues ==
  LET picks == UNION {[1..n -> 1..Len(GamePool)] : n \in 0..MaxGames}
  IN {[i \in DOMAIN p |-> GamePool[p[i]]] :
        p \in {q \in picks : \A i, j \in DOMAIN q : i # j => q[i] # q[j]}}

----------------------------------------------------------------------------
(* Production server (server.js, second revision): GamesService *)

statusOrder ==
  (<<"l", "i", "v", "e">> :> 0) @@ (<<"i", "n", " ", "d", "e", "v">> :> 1)

\* statusRank with the lookup written as statusOrder[stat] || 99
statusRank_or99(status) ==
  LET stat == trim(toLowerCase(status))
  IN IF stat \in DOMAIN statusOrder /\ statusOrder[stat] # 0
     THEN statusOrder[stat] ELSE 99

\* statusOrder[stat] !== undefined ? statusOrder[stat] : 99
statusRank(status) ==
  LET stat == trim(toLowerCase(status))
  IN IF stat \in DOMAIN statusOrder THEN statusOrder[stat] ELSE 99

\* priority || 999
priorityOr999(priority) == IF priority = 0 THEN 999 ELSE priority

\* GamesService_compare without its second key
GamesService_compare_statusOnly(a, b) ==
  statusRank(a.status) - statusRank(b.status)

\* the comparator passed to games.sort in GamesService.sortGames
GamesService_compare(a, b) ==
  LET statusDiff == statusRank(a.status) - statusRank(b.status)
  IN IF statusDiff # 0 THEN statusDiff
     ELSE priorityOr999(a.priority) - priorityOr999(b.priority)

GamesService_sortGames(games) == sort(games, GamesService_compare)

\* GamesService_getAll with the genre filter left out
GamesService_getAll_anyGenre(filters) ==
  LET games2 == IF ~Falsy(filters.status) /\ filters.status # All
                THEN filter(PORTFOLIO_GAMES, LAMBDA g : g.status = filters.status)
                ELSE PORTFOLIO_GAMES
      term   == toLowerCase(filters.search)
      games3 == IF ~Falsy(filters.search)
                THEN filter(games2, LAMBDA g :
                       \/ includes(toLowerCase(g.title), term)
                       \/ includes(toLowerCase(g.description), term))
                ELSE games2
  IN GamesService_sortGames(games3)

\* GamesService_getAll comparing the search term as typed
GamesService_getAll_caseSensitive(filters) ==
  LET games1 == IF ~Falsy(filters.genre) /\ filters.genre # All
                THEN filter(PORTFOLIO_GAMES, LAMBDA g : g.genre = filters.genre)
                ELSE PORTFOLIO_GAMES
      games2 == IF ~Falsy(filters.status) /\ filters.status # All
                THEN filter(games1, LAMBDA g : g.status = filters.status)
                ELSE games1
      games3 == IF ~Falsy(filters.search)
                THEN filter(games2, LAMBDA g :
                       \/ includes(toLowerCase(g.title), filters.search)
                       \/ includes(toLowerCase(g.description), filters.search))
                ELSE games2
  IN GamesService_sortGames(games3)

GamesService_getAll(filters) ==
  LET games0 == PORTFOLIO_GAMES
      games1 == IF ~Falsy(filters.genre) /\ filters.genre # All
                THEN filter(games0, LAMBDA g : g.genre = filters.genre)
                ELSE games0
      games2 == IF ~Falsy(filters.status) /\ filters.status # All
                THEN filter(games1, LAMBDA g : g.status = filters.status)
                ELSE games1
      term   == toLowerCase(filters.search)
      games3 == IF ~Falsy(filters.search)
                THEN filter(games2, LAMBDA g :
                       \/ includes(toLowerCase(g.title), term)
                       \/ includes(toLowerCase(g.description), term))
                ELSE games2
  IN GamesService_sortGames(games3)

\* getAll starting from PORTFOLIO_GAMES itself instead of a copy: when no
\* filter makes a new array, the sort reorders PORTFOLIO_GAMES
GamesService_getAll_catalogue_noCopy(filters) ==
  IF \/ ~Falsy(filters.genre) /\ filters.genre # All
     \/ ~Falsy(filters.status) /\ filters.status # All
     \/ ~Falsy(filters.search)
  THEN PORTFOLIO_GAMES
  ELSE GamesService_sortGames(PORTFOLIO_GAMES)

\* PORTFOLIO_GAMES after a call of getAll: games starts as a copy
\* ([...PORTFOLIO_GAMES]), filter returns new arrays, and sortGames sorts
\* the array it is given in place, which is never PORTFOLIO_GAMES
GamesService_getAll_catalogue(filters) == PORTFOLIO_GAMES

count(arr, Keep(_)) == Len(SelectSeq(arr, Keep))

\* getStats counting by the normalised status, as sortGames reads it
GamesService_getStats_normalised ==
  [totalGames |-> Len(PORTFOLIO_GAMES),
   liveGames  |-> count(PORTFOLIO_GAMES, LAMBDA g : trim(toLowerCase(g.status)) = toLowerCase(Live)),
   inDev      |-> count(PORTFOLIO_GAMES, LAMBDA g : trim(toLowerCase(g.status)) = toLowerCase(InDev)),
   concepts   |-> count(PORTFOLIO_GAMES, LAMBDA g : trim(toLowerCase(g.status)) = toLowerCase(Concept))]

\* PORTFOLIO_GAMES after a call of getStats: length and filter read it
GamesService_getStats_catalogue == PORTFOLIO_GAMES

GamesService_getStats ==
  [totalGames |-> Len(PORTFOLIO_GAMES),
   liveGames  |-> count(PORTFOLIO_GAMES, LAMBDA g : g.status = Live),
   inDev      |-> count(PORTFOLIO_GAMES, LAMBDA g : g.status = InDev),
   concepts   |-> count(PORTFOLIO_GAMES, LAMBDA g : g.status = Concept)]

----------------------------------------------------------------------------
(* Client (main.js, current revision): Games.sortGames *)

\* Games_statusRank looking the lower-cased status up without trimming it
Games_statusRank_noTrim(status) ==
  LET stat == IF Falsy(status) THEN <<>> ELSE toLowerCase(status)
  IN IF stat \in DOMAIN statusOrder THEN statusOrder[stat] ELSE 99

\* a.status ? a.status.toLowerCase().trim() : ''
Games_statusRank(status) ==
  LET stat == IF Falsy(status) THEN <<>> ELSE trim(toLowerCase(status))
  IN IF stat \in DOMAIN statusOrder THEN statusOrder[stat] ELSE 99

\* the comparator passed to games.sort in Games.sortGames
Games_compare(a, b) ==
  LET statusDiff == Games_statusRank(a.status) - Games_statusRank(b.status)
  IN IF statusDiff # 0 THEN statusDiff
     ELSE priorityOr999(a.priority) - priorityOr999(b.priority)

Games_sortGames(games) == sort(games, Games_compare)

----------------------------------------------------------------------------
(* The two sortGames functions applied to arbitrary arrays *)

InDevLoose == <<" ", "i", "n", " ", "d", "e", "v">>

SortStatuses   == {Live, InDev, Concept, LiveLoud, InDevLoose, <<>>}
SortPriorities == {1, 2}

\* arrays of games that differ in status and priority; the id is the
\* position in the array handed to the function; n is the length
SortInputs(n) ==
  {[i \in 1..n |-> Game(i, <<"x">>, <<"x">>, Arcade, f[i][1], f[i][2])] :
     f \in [1..n -> SortStatuses \X SortPriorities]}

NoCall(arg) == [fn |-> "none", arg |-> arg, ret |-> <<>>]

\* no page is open
NoClient == [page |-> "none"]

CallServerSortGames ==
  /\ call.fn = "none"
  /\ call' = [fn |-> "GamesService.sortGames", arg |-> call.arg,
              ret |-> GamesService_sortGames(call.arg)]
  /\ UNCHANGED <<PORTFOLIO_GAMES, requests, now, isConfigured, conn, client, passed>>

CallClientSortGames ==
  /\ call.fn = "none"
  /\ call' = [fn |-> "Games.sortGames", arg |-> call.arg,
              ret |-> Games_sortGames(call.arg)]
  /\ UNCHANGED <<PORTFOLIO_GAMES, requests, now, isConfigured, conn, client, passed>>

----------------------------------------------------------------------------
(* Production server: middleware.createRateLimiter *)

Clients == {"ip1", "ip2"}
Conns   == {"c1", "c2"}

recentRequests(ip) == SelectSeq(requests[ip], LAMBDA time : now - time < windowMs)

\* the limiter refusing one request later
rateLimited_offByOne(ip) == Len(recentRequests(ip)) > maxRequests

rateLimited(ip) == Len(recentRequests(ip)) >= maxRequests

TooManyRequests ==
  [status |-> 429, json |-> TRUE,
   body |-> [success |-> FALSE, error |-> "Too many requests. Please try again later."]]

\* the limiter pushing onto the stored list instead of the filtered one
admitRequest_unfiltered(ip) == [requests EXCEPT ![ip] = Append(@, now)]

\* the limiter's effect on its Map when it calls next()
admitRequest(ip) == [requests EXCEPT ![ip] = Append(recentRequests(ip), now)]

\* the history of the requests for which the limiter called next()
passRequest(ip) == [passed EXCEPT ![ip] = Append(@, now)]

----------------------------------------------------------------------------
(* Exchanges: one request per connection *)

Idle == [req |-> [route |-> "none"], res |-> <<>>, wait |-> "none"]

\* a completed exchange: the handler has returned and waits for nothing
Done(r, responses) == [req |-> r, res |-> responses, wait |-> "none"]

\* an exchange whose handler has returned and left a callback behind
Waiting(r, what, held) ==
  [req |-> r, res |-> <<>>, wait |-> what, held |-> held]

Json(status, body) == [status |-> status, json |-> TRUE, body |-> body]

\* Express's final handler, reached when no route and no middleware answers
CannotRoute == [status |-> 404, json |-> FALSE, body |-> "Cannot GET"]

fresh(c) == conn[c].req.route = "none"

----------------------------------------------------------------------------
(* Production server: createApp, the catalogue routes of apiRouter *)

SearchParams == {Undefined, <<>>, <<"a">>, <<"B">>, <<"A", "b">>}
GenreParams  == {Undefined, <<>>, All, Arcade, Puzzle}
StatusParams == {Undefined, All, Live, InDev}
IdParams     == {<<"1">>, <<"2">>, <<"9">>, <<"0", "1">>, <<"1", "a">>, <<"a">>}

\* GET /api/games?search=&genre=&status=
ProdGetGames(c, ip, search, genre, status) ==
  LET r == [rev |-> "prod", route |-> "GET /api/games", ip |-> ip,
            query |-> [search |-> search, genre |-> genre, status |-> status]]
  IN /\ fresh(c)
     /\ IF rateLimited(ip)
        THEN /\ conn' = [conn EXCEPT ![c] = Done(r, <<TooManyRequests>>)]
             /\ UNCHANGED <<requests, passed>>
        ELSE /\ requests' = admitRequest(ip)
             /\ passed' = passRequest(ip)
             /\ conn' = [conn EXCEPT ![c] =
                          Done(r, <<Json(200, GamesService_getAll(r.query))>>)]
     /\ PORTFOLIO_GAMES' = IF rateLimited(ip) THEN PORTFOLIO_GAMES
                           ELSE GamesService_getAll_catalogue(r.query)
     /\ UNCHANGED <<now, isConfigured, call, client>>

\* GET /api/stats
ProdGetStats(c, ip) ==
  LET r == [rev |-> "prod", route |-> "GET /api/stats", ip |-> ip]
  IN /\ fresh(c)
     /\ IF rateLimited(ip)
        THEN /\ conn' = [conn EXCEPT ![c] = Done(r, <<TooManyRequests>>)]
             /\ UNCHANGED <<requests, passed>>
        ELSE /\ requests' = admitRequest(ip)
             /\ passed' = passRequest(ip)
             /\ conn' = [conn EXCEPT ![c] =
                          Done(r, <<Json(200, GamesService_getStats)>>)]
     /\ PORTFOLIO_GAMES' = IF rateLimited(ip) THEN PORTFOLIO_GAMES
                           ELSE GamesService_getStats_catalogue
     /\ UNCHANGED <<now, isConfigured, call, client>>

\* the exchange on a connection is over and the connection takes the next
\* request
NextRequest(c) ==
  /\ ~fresh(c)
  /\ conn[c].wait = "none"
  /\ conn' = [conn EXCEPT ![c] = Idle]
  /\ UNCHANGED <<PORTFOLIO_GAMES, requests, now, isConfigured, call, client, passed>>

\* GET /api/games/:id: apiRouter has no such route, so after the limiter and
\* noCache the request leaves the router, the SPA fallback passes an /api
\* path on with next(), errorHandler is skipped (no error) and Express's
\* final handler answers
ProdGetGameById(c, ip, id) ==
  LET r == [rev |-> "prod", route |-> "GET /api/games/:id", ip |-> ip, id |-> id]
  IN /\ fresh(c)
     /\ IF rateLimited(ip)
        THEN /\ conn' = [conn EXCEPT ![c] = Done(r, <<TooManyRequests>>)]
             /\ UNCHANGED <<requests, passed>>
        ELSE /\ requests' = admitRequest(ip)
             /\ passed' = passRequest(ip)
             /\ conn' = [conn EXCEPT ![c] = Done(r, <<CannotRoute>>)]
     /\ UNCHANGED <<PORTFOLIO_GAMES, now, isConfigured, call, client>>

----------------------------------------------------------------------------
(* Static server revisions: part_001 ("static-1") and the server appended  *)
(* to main.js ("static-2")                                                 *)

SortParams == {Undefined, <<"o", "l", "d", "e", "s", "t">>, <<"a", "l", "p", "h", "a">>}

Digits == <<"0", "1", "2", "3", "4", "5", "6", "7", "8", "9">>
isDigit(ch) == \E d \in 1..10 : Digits[d] = ch
digitValue(ch) == (CHOOSE d \in 1..10 : Digits[d] = ch) - 1

\* the value of a string of digits
decimal(s) ==
  LET val[n \in 0..Len(s)] ==
        IF n = 0 THEN 0 ELSE 10 * val[n - 1] + digitValue(s[n])
  IN val[Len(s)]

NaN == <<>>

\* parseInt(s): the longest prefix of digits, NaN when there is none
parseInt(s) ==
  LET stop == {i \in 1..Len(s) : ~isDigit(s[i])}
      n == IF stop = {} THEN Len(s)
           ELSE (CHOOSE i \in stop : \A j \in stop : i <= j) - 1
  IN IF n = 0 THEN NaN ELSE <<decimal(SubSeq(s, 1, n))>>

\* Array.prototype.find: <<e>> for the first element e that satisfies Test,
\* <<>> for undefined
find(arr, Test(_)) ==
  LET hits == {i \in 1..Len(arr) : Test(arr[i])}
  IN IF hits = {} THEN <<>>
     ELSE <<arr[CHOOSE i \in hits : \A j \in hits : i <= j]>>

\* String.prototype.localeCompare on the model's letters: letters first,
\* case second with lower case before upper case
lexLess(s, t) ==
  \E k \in 1..Len(t) :
    /\ \A i \in 1..(k - 1) : i <= Len(s) /\ s[i] = t[i]
    /\ \/ k > Len(s)
       \/ \E a, b \in 1..Len(LetterOrder) :
            LetterOrder[a] = s[k] /\ LetterOrder[b] = t[k] /\ a < b

localeCompare(s, t) ==
  IF lexLess(toLowerCase(s), toLowerCase(t)) THEN -1
  ELSE IF lexLess(toLowerCase(t), toLowerCase(s)) THEN 1
  ELSE IF lexLess(s, t) THEN -1
  ELSE IF lexLess(t, s) THEN 1
  ELSE 0

statusOrder1 == (Live :> 0) @@ (InDev :> 1) @@ (Prototype :> 2) @@ (Concept :> 3)
statusOrder2 == (Live :> 0) @@ (InDev :> 1) @@ (Concept :> 2)

\* order[status] || 99
rankOr99(order, status) ==
  IF status \in DOMAIN order /\ order[status] # 0 THEN order[status] ELSE 99

\* part_001: results.sort((a, b) => (statusOrder[a.status] || 99) - ...)
Static1_compare(a, b) ==
  rankOr99(statusOrder1, a.status) - rankOr99(statusOrder1, b.status)

\* main.js: status difference, then descending id
Static2_compare(a, b) ==
  LET statusDiff == rankOr99(statusOrder2, a.status) - rankOr99(statusOrder2, b.status)
  IN IF statusDiff # 0 THEN statusDiff ELSE b.id - a.id

oldest_compare(a, b) == a.id - b.id
alpha_compare(a, b) == localeCompare(a.title, b.title)

\* the body of app.get('/api/games') up to the timer
Static_results(rev, query) ==
  LET results0 == PORTFOLIO_GAMES
      results1 == IF ~Falsy(query.genre) /\ query.genre # All
                  THEN filter(results0, LAMBDA g : g.genre = query.genre)
                  ELSE results0
      term     == toLowerCase(query.search)
      results2 == IF ~Falsy(query.search)
                  THEN filter(results1, LAMBDA g :
                         \/ includes(toLowerCase(g.title), term)
                         \/ includes(toLowerCase(g.description), term))
                  ELSE results1
  IN IF query.sort = <<"o", "l", "d", "e", "s", "t">> THEN sort(results2, oldest_compare)
     ELSE IF query.sort = <<"a", "l", "p", "h", "a">> THEN sort(results2, alpha_compare)
     ELSE IF rev = "static-1" THEN sort(results2, Static1_compare)
     ELSE sort(results2, Static2_compare)

StaticRevs == {"static-1", "static-2"}

\* GET /api/games?search=&genre=&sort=: the handler computes results and
\* leaves setTimeout(() => res.json(results), 100) behind
StaticGetGames(c, rev, search, genre, sortBy) ==
  LET r == [rev |-> rev, route |-> "GET /api/games",
            query |-> [search |-> search, genre |-> genre, sort |-> sortBy]]
  IN /\ fresh(c)
     /\ conn' = [conn EXCEPT ![c] = Waiting(r, "setTimeout", Static_results(rev, r.query))]
     /\ UNCHANGED <<PORTFOLIO_GAMES, requests, now, isConfigured, call, client, passed>>

\* the timer of StaticGetGames fires
StaticGamesTimeout(c) ==
  /\ conn[c].wait = "setTimeout"
  /\ conn' = [conn EXCEPT ![c] = Done(conn[c].req, <<Json(200, conn[c].held)>>)]
  /\ UNCHANGED <<PORTFOLIO_GAMES, requests, now, isConfigured, call, client, passed>>

GameNotFound == Json(404, [error |-> "Game not found"])

\* GET /api/games/:id (the same code in both static revisions)
StaticGetGameById(c, rev, idParam) ==
  LET r == [rev |-> rev, route |-> "GET /api/games/:id", id |-> idParam]
      id == parseInt(idParam)
      game == find(PORTFOLIO_GAMES, LAMBDA g : id # NaN /\ g.id = id[1])
  IN /\ fresh(c)
     /\ conn' = [conn EXCEPT ![c] =
                  IF game = <<>> THEN Done(r, <<GameNotFound>>)
                  ELSE Done(r, <<Json(200, game[1])>>)]
     /\ UNCHANGED <<PORTFOLIO_GAMES, requests, now, isConfigured, call, client, passed>>

----------------------------------------------------------------------------
(* SQLite revision (server.js, first revision); PORTFOLIO_GAMES stands for *)
(* the rows of the games table                                             *)

\* SQLite applies NUMERIC affinity to the text bound to "id = ?": a text
\* that is an integer literal becomes that integer, any other text equals
\* no INTEGER id
sqliteNumeric(text) ==
  IF text # <<>> /\ \A i \in 1..Len(text) : isDigit(text[i])
  THEN <<decimal(text)>> ELSE NaN

\* GET /api/games/:id: the handler issues db.get and returns
SqliteGetGameById(c, idParam) ==
  LET r == [rev |-> "sqlite", route |-> "GET /api/games/:id", id |-> idParam]
  IN /\ fresh(c)
     /\ conn' = [conn EXCEPT ![c] = Waiting(r, "db.get", idParam)]
     /\ UNCHANGED <<PORTFOLIO_GAMES, requests, now, isConfigured, call, client, passed>>

\* the callback of db.get("SELECT * FROM games WHERE id = ?", [id], ...)
SqliteGameByIdCallback(c, err) ==
  LET id == sqliteNumeric(conn[c].held)
      row == find(PORTFOLIO_GAMES, LAMBDA g : id # NaN /\ g.id = id[1])
  IN /\ conn[c].wait = "db.get"
     /\ conn' = [conn EXCEPT ![c] =
                  IF err THEN Done(conn[c].req, <<Json(500, [error |-> "Database error"])>>)
                  ELSE IF row = <<>> THEN Done(conn[c].req, <<GameNotFound>>)
                  ELSE Done(conn[c].req, <<Json(200, row[1])>>)]
     /\ UNCHANGED <<PORTFOLIO_GAMES, requests, now, isConfigured, call, client, passed>>

----------------------------------------------------------------------------
(* POST /api/contact: request bodies *)

\* A message body is long, so it is kept as its runs: <<ch, n>> stands for n
\* copies of the character ch, and adjacent runs differ in their character.
Run(ch, n) == <<ch, n>>

\* a JSON number as the value of a body field
NumberValue(n) == <<Run("#number", n)>>

\* typeof v === 'string', for the value of a body field
isString(v) == \A k \in 1..Len(v) : v[k][1] # "#number"

\* message.length
textLength(runs) ==
  LET len[k \in 0..Len(runs)] == IF k = 0 THEN 0 ELSE len[k - 1] + runs[k][2]
  IN len[Len(runs)]

\* message.trim(): without the white-space runs at either end
textTrim(runs) ==
  IF \A k \in 1..Len(runs) : runs[k][1] \in WhiteSpace THEN <<>>
  ELSE SubSeq(runs,
         CHOOSE k \in 1..Len(runs) :
           runs[k][1] \notin WhiteSpace /\ \A j \in 1..(k - 1) : runs[j][1] \in WhiteSpace,
         CHOOSE k \in 1..Len(runs) :
           runs[k][1] \notin WhiteSpace /\ \A j \in (k + 1)..Len(runs) : runs[j][1] \in WhiteSpace)

ValidEmail == <<"a", "@", "a", ".", "a">>

Emails == {
  <<>>, ValidEmail,
  <<"a", ".", "a", "@", "a", ".", "a", ".", "a">>,
  <<"a", "@", "a", ".", ".", "a">>,
  <<"a">>,
  <<"a", "@", "a">>,
  <<"a", ".", "a", "@", "a">>,
  <<"@", "a", ".", "a">>,
  <<"a", "@", ".", "a">>,
  <<"a", "@", "a", ".">>,
  <<"a", "@", "a", "@", "a", ".", "a">>,
  <<"a", "@", "@", "a", ".", "a">>,
  <<"a", " ", "a", "@", "a", ".", "a">>,
  <<"a", "@", "a", ".", "a", " ">>,
  <<" ", "a", "@", "a", ".", "a">>,
  <<"a", "@", "a", "\t", ".", "a">> }

Letters(n) == <<Run("x", n)>>

Messages == {
  <<>>,
  <<Run(" ", minMessageLength + 2)>>,
  Letters(minMessageLength - 1),
  Letters(minMessageLength),
  <<Run(" ", 1), Run("x", minMessageLength - 1), Run(" ", 2)>>,
  <<Run(" ", 1), Run("x", minMessageLength), Run("\t", 1)>>,
  <<Run("x", 4), Run(" ", 2), Run("x", 4)>>,
  Letters(maxMessageLength),
  Letters(maxMessageLength + 1),
  <<Run("x", maxMessageLength - 1), Run(" ", 2)>> }

\* JSON bodies: every email with a message of ten letters, every message
\* with a valid email, bodies with both fields wrong, bodies without a field
ContactBodies ==
  {[email |-> e, message |-> Letters(minMessageLength)] : e \in Emails}
  \cup {[email |-> ValidEmail, message |-> m] : m \in Messages}
  \cup {[email |-> <<"a">>, message |-> m] :
          m \in {Letters(minMessageLength - 1), Letters(maxMessageLength + 1)}}
  \cup {[email |-> ValidEmail], [message |-> Letters(minMessageLength)],
        [email |-> <<"a">>], [message |-> Letters(2)]}
  \cup {[email |-> e, message |-> NumberValue(1234567890)] : e \in {ValidEmail, <<"a">>}}

\* !body.field for a field that is a string when present
fieldFalsy(body, field) == field \notin DOMAIN body \/ body[field] = <<>>

\* [^\s@]
plainChar(ch) == ch \notin WhiteSpace /\ ch # "@"

\* [^\s@]+ matches s[from..to]
plainRun(s, from, to) == from <= to /\ \A i \in from..to : plainChar(s[i])

\* /^[^\s@]+@[^\s@]+\.[^\s@]+$/.test(s)
emailRegex_test(s) ==
  \E at, dot \in 1..Len(s) :
    /\ plainRun(s, 1, at - 1)
    /\ s[at] = "@"
    /\ plainRun(s, at + 1, dot - 1)
    /\ s[dot] = "."
    /\ plainRun(s, dot + 1, Len(s))

Failure(status, error) == Json(status, [success |-> FALSE, error |-> error])

\* an exchange of POST /api/contact; mails counts the calls of sendMail
Contact(r, responses, wait, mails) ==
  [req |-> r, res |-> responses, wait |-> wait, mails |-> mails]

----------------------------------------------------------------------------
(* Production server: POST /api/contact *)

\* what a middleware leaves behind when it throws instead of answering
Thrown(err) == [thrown |-> err]

\* (42).trim is undefined, so message.trim() throws
TrimTypeError == [name |-> "TypeError", message |-> "message.trim is not a function"]

\* the rejection of transporter.sendMail: nodemailer's errors carry a code and
\* a message, and no status
SendMailError == [name |-> "Error", message |-> "SMTP", code |-> "ECONNECTION"]

\* middleware.errorHandler: err.status || 500, and the message hidden in
\* production
errorHandler(err, production) ==
  Json(IF "status" \in DOMAIN err /\ err.status # 0 THEN err.status ELSE 500,
       [success |-> FALSE,
        error |-> IF production THEN "Internal server error" ELSE err.message])

\* validateContactForm with the length taken before trimming
validateContactForm_untrimmed(body) ==
  IF fieldFalsy(body, "email") \/ fieldFalsy(body, "message")
  THEN <<Failure(400, "Email and message are required fields.")>>
  ELSE IF ~emailRegex_test(body.email)
  THEN <<Failure(400, "Invalid email format.")>>
  ELSE IF ~isString(body.message)
  THEN <<>>
  ELSE IF textLength(body.message) < minMessageLength
  THEN <<Failure(400, "Message must be at least 10 characters long.")>>
  ELSE IF textLength(body.message) > maxMessageLength
  THEN <<Failure(400, "Message cannot exceed 2000 characters.")>>
  ELSE <<>>

\* validateContactForm without the format check
validateContactForm_anyEmail(body) ==
  IF fieldFalsy(body, "email") \/ fieldFalsy(body, "message")
  THEN <<Failure(400, "Email and message are required fields.")>>
  ELSE IF ~isString(body.message)
  THEN <<Thrown(TrimTypeError)>>
  ELSE IF textLength(textTrim(body.message)) < minMessageLength
  THEN <<Failure(400, "Message must be at least 10 characters long.")>>
  ELSE IF textLength(body.message) > maxMessageLength
  THEN <<Failure(400, "Message cannot exceed 2000 characters.")>>
  ELSE <<>>

\* middleware.validateContactForm: the response it sends or the error it
\* throws, <<>> when it calls next()
validateContactForm(body) ==
  IF fieldFalsy(body, "email") \/ fieldFalsy(body, "message")
  THEN <<Failure(400, "Email and message are required fields.")>>
  ELSE IF ~emailRegex_test(body.email)
  THEN <<Failure(400, "Invalid email format.")>>
  ELSE IF ~isString(body.message)
  THEN <<Thrown(TrimTypeError)>>
  ELSE IF textLength(textTrim(body.message)) < minMessageLength
  THEN <<Failure(400, "Message must be at least 10 characters long.")>>
  ELSE IF textLength(body.message) > maxMessageLength
  THEN <<Failure(400, "Message cannot exceed 2000 characters.")>>
  ELSE <<>>

\* the stages of POST /api/contact on the production server, in the order
\* in which apiRouter registers them
ContactStages == <<"createRateLimiter", "validateContactForm", "isConfigured", "sendContactEmail">>

\* an exchange of the production POST /api/contact: ran lists the stages
\* entered so far, delivered counts the mails that sendMail accepted
ProdContact(r, responses, wait, ran, mails, delivered) ==
  [req |-> r, res |-> responses, wait |-> wait, mails |-> mails,
   ran |-> SubSeq(ContactStages, 1, ran), delivered |-> delivered]

\* ProdPostContact without the configuration check of the handler:
\* sendContactEmail then throws 'Email service not configured' itself
ProdPostContact_noConfiguredCheck(c, ip, body, production) ==
  LET r == [rev |-> "prod", route |-> "POST /api/contact", ip |-> ip, body |-> body]
      invalid == validateContactForm(body)
  IN /\ conn[c].wait = "none"
     /\ IF rateLimited(ip)
        THEN /\ conn' = [conn EXCEPT ![c] = ProdContact(r, <<TooManyRequests>>, "none", 1, 0, 0)]
             /\ UNCHANGED <<requests, passed>>
        ELSE /\ requests' = admitRequest(ip)
             /\ passed' = passRequest(ip)
             /\ conn' = [conn EXCEPT ![c] =
                  IF invalid # <<>>
                  THEN ProdContact(r,
                         IF "thrown" \in DOMAIN invalid[1]
                         THEN <<errorHandler(invalid[1].thrown, production)>>
                         ELSE invalid, "none", 2, 0, 0)
                  ELSE IF ~isConfigured
                  THEN ProdContact(r,
                         <<errorHandler([message |-> "Email service not configured"], production)>>,
                         "none", 4, 0, 0)
                  ELSE ProdContact(r, <<>>, "sendMail", 4, 1, 0)]
     /\ UNCHANGED <<PORTFOLIO_GAMES, now, isConfigured, call, client>>

\* POST /api/contact up to the await: rate limiter, validateContactForm
\* (an error it throws goes to errorHandler), the configuration check, then
\* emailService.sendContactEmail, which calls transporter.sendMail
ProdPostContact(c, ip, body, production) ==
  LET r == [rev |-> "prod", route |-> "POST /api/contact", ip |-> ip, body |-> body]
      invalid == validateContactForm(body)
  IN /\ conn[c].wait = "none"
     /\ IF rateLimited(ip)
        THEN /\ conn' = [conn EXCEPT ![c] = ProdContact(r, <<TooManyRequests>>, "none", 1, 0, 0)]
             /\ UNCHANGED <<requests, passed>>
        ELSE /\ requests' = admitRequest(ip)
             /\ passed' = passRequest(ip)
             /\ conn' = [conn EXCEPT ![c] =
                  IF invalid # <<>>
                  THEN ProdContact(r,
                         IF "thrown" \in DOMAIN invalid[1]
                         THEN <<errorHandler(invalid[1].thrown, production)>>
                         ELSE invalid, "none", 2, 0, 0)
                  ELSE IF ~isConfigured
                  THEN ProdContact(r, <<Failure(503, "Email service is not configured.")>>,
                                   "none", 3, 0, 0)
                  ELSE ProdContact(r, <<>>, "sendMail", 4, 1, 0)]
     /\ UNCHANGED <<PORTFOLIO_GAMES, now, isConfigured, call, client>>

\* the promise of sendMail settles: 200 when it resolves; when it rejects,
\* next(error) reaches middleware.errorHandler
ProdSendMailSettles(c, resolved, production) ==
  /\ conn[c].req.route = "POST /api/contact"
  /\ conn[c].req.rev = "prod"
  /\ conn[c].wait = "sendMail"
  /\ conn' = [conn EXCEPT ![c] =
       IF resolved
       THEN ProdContact(conn[c].req,
                        <<Json(200, [success |-> TRUE, message |-> "Email sent successfully.",
                                     id |-> now])>>, "none", 4, conn[c].mails, 1)
       ELSE ProdContact(conn[c].req, <<errorHandler(SendMailError, production)>>,
                        "none", 4, conn[c].mails, 0)]
  /\ UNCHANGED <<PORTFOLIO_GAMES, requests, now, isConfigured, call, client, passed>>

----------------------------------------------------------------------------
(* Static server revisions: POST /api/contact (the same code in both) *)

\* the handler up to await transporter.sendMail(mailOptions)
StaticPostContact(c, rev, body) ==
  LET r == [rev |-> rev, route |-> "POST /api/contact", body |-> body]
  IN /\ conn[c].wait = "none"
     /\ conn' = [conn EXCEPT ![c] =
          IF fieldFalsy(body, "email") \/ fieldFalsy(body, "message")
          THEN Contact(r, <<Failure(400, "Email and message are required fields.")>>, "none", 0)
          ELSE IF ~emailRegex_test(body.email)
          THEN Contact(r, <<Failure(400, "Invalid email format provided.")>>, "none", 0)
          ELSE Contact(r, <<>>, "sendMail", 1)]
     /\ UNCHANGED <<PORTFOLIO_GAMES, requests, now, isConfigured, call, client, passed>>

\* the promise of sendMail settles: 200, or the catch block's 500
StaticSendMailSettles(c, resolved) ==
  /\ conn[c].req.route = "POST /api/contact"
  /\ conn[c].req.rev \in StaticRevs
  /\ conn[c].wait = "sendMail"
  /\ conn' = [conn EXCEPT ![c] =
       IF resolved
       THEN Contact(conn[c].req,
                    <<Json(200, [success |-> TRUE,
                                 message |-> "Email has been sent successfully.",
                                 id |-> now])>>, "none", conn[c].mails)
       ELSE Contact(conn[c].req, <<Failure(500, "Failed to send email via SMTP provider.")>>,
                    "none", conn[c].mails)]
  /\ UNCHANGED <<PORTFOLIO_GAMES, requests, now, isConfigured, call, client, passed>>

\* time passes
Tick ==
  /\ now < MaxTime
  /\ now' = now + 1
  /\ UNCHANGED <<PORTFOLIO_GAMES, requests, isConfigured, conn, call, client, passed>>

----------------------------------------------------------------------------
(* The middleware chain of each server revision, from express.json to the  *)
(* last app.use. A path is the list of its segments: /api/stats is         *)
(* <<SegApi, SegStats>>, / is <<>>.                                        *)

SegApi     == <<"a", "p", "i">>
SegApix    == <<"a", "p", "i", "x">>
SegAPI     == <<"A", "P", "I">>
SegStats   == <<"s", "t", "a", "t", "s">>
SegGames   == <<"g", "a", "m", "e", "s">>
SegHealth  == <<"h", "e", "a", "l", "t", "h">>
SegContact == <<"c", "o", "n", "t", "a", "c", "t">>
SegParam   == <<":">>

Paths ==
  { <<>>, <<<<"x">>>>, <<<<"x">>, SegApi>>, <<SegApix>>, <<SegAPI, <<"x">>>>, <<SegAPI, SegStats>>,
    <<SegApi>>, <<SegApi, SegStats>>, <<SegApi, SegGames>>, <<SegApi, SegGames, <<"1">>>>, <<SegApi, SegHealth>>,
    <<SegApi, SegContact>>, <<SegApi, <<"x">>>>, <<SegApi, SegStats, <<"x">>>> }

\* a request: express.static finds a file for the path or not, express.json
\* can parse the body or not
Requests ==
  [method : {"GET", "POST", "OPTIONS"}, path : Paths, file : BOOLEAN, badJson : BOOLEAN]

\* the routes each revision registers, by method, below /api
Routes(rev) ==
  IF rev = "prod"
  THEN {<<"GET", <<SegHealth>>>>, <<"GET", <<SegStats>>>>, <<"GET", <<SegGames>>>>,
        <<"POST", <<SegContact>>>>}
  ELSE IF rev = "static-1"
  THEN {<<"GET", <<SegStats>>>>, <<"GET", <<SegGames>>>>, <<"GET", <<SegGames, SegParam>>>>,
        <<"POST", <<SegContact>>>>, <<"GET", <<SegHealth>>>>}
  ELSE IF rev = "static-2"
  THEN {<<"GET", <<SegGames>>>>, <<"GET", <<SegGames, SegParam>>>>, <<"POST", <<SegContact>>>>,
        <<"GET", <<SegHealth>>>>}
  ELSE {<<"GET", <<SegStats>>>>, <<"GET", <<SegGames>>>>, <<"GET", <<SegGames, SegParam>>>>,
        <<"POST", <<SegContact>>>>, <<"GET", <<SegHealth>>>>,
        <<"GET", <<<<"t", "e", "s", "t">>, <<"s", "l", "o", "w">>>>>>,
        <<"GET", <<<<"t", "e", "s", "t">>, <<"e", "r", "r", "o", "r">>>>>>,
        <<"POST", <<<<"t", "e", "s", "t">>, <<"r", "e", "s", "e", "t">>>>>>,
        <<"GET", <<<<"t", "e", "s", "t">>, <<"c", "o", "n", "t", "a", "c", "t", "s">>>>>>}

\* Express matches a path against a route pattern segment by segment without
\* regard to case; a parameter matches any segment
matches(pattern, segments) ==
  /\ Len(pattern) = Len(segments)
  /\ \A k \in 1..Len(pattern) :
       pattern[k] = SegParam \/ toLowerCase(segments[k]) = toLowerCase(pattern[k])

\* the path lies under the mount point /api (app.use('/api', ...)), and so
\* does every path of a route registered as '/api/...'
mounted(path) == Len(path) >= 1 /\ toLowerCase(path[1]) = SegApi

\* some route of the revision answers the request
routed(rev, req) ==
  /\ mounted(req.path)
  /\ \E route \in Routes(rev) :
       route[1] = req.method /\ matches(route[2], Tail(req.path))

\* req.path.startsWith('/api'): the path string is "/" followed by the
\* segments joined with "/"
startsWithApi(path) ==
  /\ Len(path) >= 1
  /\ Len(path[1]) >= Len(SegApi)
  /\ SubSeq(path[1], 1, Len(SegApi)) = SegApi

\* express.static answers GET requests for which it finds a file
servesFile(req) == req.method = "GET" /\ req.file

Answer(by, status, json, body) == [by |-> by, status |-> status, json |-> json, body |-> body]

\* cors() is the first middleware of every revision; it ends an OPTIONS
\* request itself, with 204 and an empty body
preflight(req) == req.method = "OPTIONS"
Preflight == Answer("cors", 204, FALSE, "")

IndexHtml == Answer("sendFile", 200, FALSE, "index.html")
EndpointNotFound == Answer("404 handler", 404, TRUE, "Endpoint not found")

\* the error express.json passes to next() for a body that is not JSON
BodyParseError == [status |-> 400, message |-> "Unexpected token"]

\* the last app.use of the static and the SQLite revisions
notFoundHandler(req) == IF ~startsWithApi(req.path) THEN IndexHtml ELSE EndpointNotFound

\* the fallback that sends index.html for every path, /api or not
spaFallback_everyPath(req) == IndexHtml

\* the SPA fallback of createApp; next() leaves an /api path to Express's
\* final handler, since errorHandler takes errors only
spaFallback(req) ==
  IF startsWithApi(req.path)
  THEN Answer("finalhandler", 404, FALSE, "Cannot " \o req.method)
  ELSE IndexHtml

\* a request through the chain of createApp: express.json, express.static,
\* the router mounted on /api with its rate limiter and routes, the SPA
\* fallback, errorHandler
ProdRoute(c, ip, req, production) ==
  LET r == [rev |-> "prod", route |-> "any", ip |-> ip, req |-> req]
      reaches == ~preflight(req) /\ ~req.badJson /\ ~servesFile(req) /\ mounted(req.path)
      limited == reaches /\ rateLimited(ip)
      limiter == reaches /\ ~rateLimited(ip)
      error == errorHandler(BodyParseError, production)
  IN /\ conn[c].wait = "none"
     /\ conn' = [conn EXCEPT ![c] = Done(r, <<
          IF preflight(req) THEN Preflight
          ELSE IF req.badJson
          THEN Answer("errorHandler", error.status, TRUE, error.body.error)
          ELSE IF servesFile(req) THEN Answer("express.static", 200, FALSE, "file")
          ELSE IF limited
          THEN Answer("createRateLimiter", 429, TRUE, TooManyRequests.body.error)
          ELSE IF routed("prod", req) THEN Answer("route", 200, TRUE, "route")
          ELSE spaFallback(req) >>)]
     /\ requests' = IF limiter THEN admitRequest(ip) ELSE requests
     /\ passed' = IF limiter THEN passRequest(ip) ELSE passed
     /\ UNCHANGED <<PORTFOLIO_GAMES, now, isConfigured, call, client>>

\* a request through the chain of a static revision; it has no error
\* middleware, so Express's own answers the body parser's error
StaticRoute(c, rev, req) ==
  LET r == [rev |-> rev, route |-> "any", req |-> req]
  IN /\ conn[c].wait = "none"
     /\ conn' = [conn EXCEPT ![c] = Done(r, <<
          IF preflight(req) THEN Preflight
          ELSE IF req.badJson
          THEN Answer("finalhandler", BodyParseError.status, FALSE, "SyntaxError")
          ELSE IF servesFile(req) THEN Answer("express.static", 200, FALSE, "file")
          ELSE IF routed(rev, req) THEN Answer("route", 200, TRUE, "route")
          ELSE notFoundHandler(req) >>)]
     /\ UNCHANGED <<PORTFOLIO_GAMES, requests, now, isConfigured, call, client, passed>>

\* a request through the chain of the SQLite revision; its global error
\* handler answers 500 whatever the error
SqliteRoute(c, req) ==
  LET r == [rev |-> "sqlite", route |-> "any", req |-> req]
  IN /\ conn[c].wait = "none"
     /\ conn' = [conn EXCEPT ![c] = Done(r, <<
          IF preflight(req) THEN Preflight
          ELSE IF req.badJson THEN Answer("error handler", 500, TRUE, "Internal server error")
          ELSE IF servesFile(req) THEN Answer("express.static", 200, FALSE, "file")
          ELSE IF routed("sqlite", req) THEN Answer("route", 200, TRUE, "route")
          ELSE notFoundHandler(req) >>)]
     /\ UNCHANGED <<PORTFOLIO_GAMES, requests, now, isConfigured, call, client, passed>>

----------------------------------------------------------------------------
(* Client (main.js, current revision): API.fetchWithRetry                  *)
(*                                                                         *)
(* client.tasks[t] is one call of fetchWithRetry: the loop index i, the    *)
(* await it is suspended at (pc), and what it has done so far: calls[k] is *)
(* the list of sleeps that had elapsed when the k-th fetch was issued,     *)
(* outcomes[k] is how the k-th fetch settled.                              *)

\* CONFIG.RETRY_ATTEMPTS
RETRY_ATTEMPTS == 3
\* CONFIG.RETRY_DELAY, in milliseconds
RETRY_DELAY == 1000

\* largest retries argument of a direct call
MaxRetries == 3

\* how a fetch settles: the promise rejects (no response), or it resolves
\* with a response whose ok is false, or with an ok response whose body
\* is JSON text (json names the value) or is not ("SyntaxError")
NetworkError == [kind |-> "reject", ok |-> FALSE, status |-> 0, json |-> "none"]
HttpError(status) == [kind |-> "response", ok |-> FALSE, status |-> status, json |-> "none"]
Ok(json) == [kind |-> "response", ok |-> TRUE, status |-> 200, json |-> json]

FetchOutcomes ==
  {NetworkError, HttpError(429), HttpError(500), Ok("SyntaxError"), Ok("A"), Ok("B")}

\* an HTTP-ok response whose body is JSON
Parses(outcome) == outcome.ok /\ outcome.json # "SyntaxError"

\* the Error object thrown in attempt number attempt
Error(name, status, attempt) == [name |-> name, status |-> status, attempt |-> attempt]

NotCalled == [pc |-> "idle"]

\* the frame of fetchWithRetry(url, options, retries) on entry
Frame(retries) ==
  [retries |-> retries, i |-> 0, pc |-> "entry", inflight |-> 0,
   calls |-> <<>>, outcomes |-> <<>>, slept |-> <<>>, sleeping |-> 0, value |-> <<>>]

\* the for statement from index i up to the next await: one more fetch, or
\* the end of the loop, after which the function returns undefined
fetchWithRetry_for(task, i) ==
  IF i < task.retries
  THEN [task EXCEPT !.i = i, !.pc = "fetch", !.inflight = @ + 1,
                    !.calls = Append(@, task.slept)]
  ELSE [task EXCEPT !.i = i, !.pc = "resolved", !.value = <<"undefined">>]

\* the catch block sleeping RETRY_DELAY whatever the attempt
fetchWithRetry_catch_constantDelay(task, error) ==
  IF task.i = task.retries - 1
  THEN [task EXCEPT !.pc = "rejected", !.value = <<error>>]
  ELSE [task EXCEPT !.pc = "sleep", !.sleeping = RETRY_DELAY]

\* the catch block: rethrow in the last iteration, otherwise sleep
fetchWithRetry_catch(task, error) ==
  IF task.i = task.retries - 1
  THEN [task EXCEPT !.pc = "rejected", !.value = <<error>>]
  ELSE [task EXCEPT !.pc = "sleep", !.sleeping = RETRY_DELAY * (task.i + 1)]

\* await fetch(url, ...) settles
fetchWithRetry_afterFetch(task, outcome) ==
  LET settled == [task EXCEPT !.inflight = @ - 1, !.outcomes = Append(@, outcome)]
  IN IF outcome.kind = "reject"
     THEN fetchWithRetry_catch(settled, Error("TypeError", 0, task.i + 1))
     ELSE IF ~outcome.ok
     THEN fetchWithRetry_catch(settled, Error("Error", outcome.status, task.i + 1))
     ELSE [settled EXCEPT !.pc = "json"]

\* await response.json() settles
fetchWithRetry_afterJson(task) ==
  LET response == task.outcomes[Len(task.outcomes)]
  IN IF response.json = "SyntaxError"
     THEN fetchWithRetry_catch(task, Error("SyntaxError", response.status, task.i + 1))
     ELSE [task EXCEPT !.pc = "resolved", !.value = <<response.json>>]

\* await Utils.sleep(ms) settles: i++ and the loop test
fetchWithRetry_afterSleep(task) ==
  fetchWithRetry_for([task EXCEPT !.slept = Append(@, task.sleeping), !.sleeping = 0],
                     task.i + 1)

Settled(task) == task.pc \in {"resolved", "rejected"}

FetchSettles(t, outcome) ==
  /\ t \in DOMAIN client.tasks
  /\ client.tasks[t].pc = "fetch"
  /\ client' = [client EXCEPT !.tasks[t] = fetchWithRetry_afterFetch(@, outcome)]
  /\ UNCHANGED <<PORTFOLIO_GAMES, requests, now, isConfigured, conn, call, passed>>

JsonSettles(t) ==
  /\ t \in DOMAIN client.tasks
  /\ client.tasks[t].pc = "json"
  /\ client' = [client EXCEPT !.tasks[t] = fetchWithRetry_afterJson(@)]
  /\ UNCHANGED <<PORTFOLIO_GAMES, requests, now, isConfigured, conn, call, passed>>

SleepElapses(t) ==
  /\ t \in DOMAIN client.tasks
  /\ client.tasks[t].pc = "sleep"
  /\ client' = [client EXCEPT !.tasks[t] = fetchWithRetry_afterSleep(@)]
  /\ UNCHANGED <<PORTFOLIO_GAMES, requests, now, isConfigured, conn, call, passed>>

\* a direct call API.fetchWithRetry(url, options, retries)
CallFetchWithRetry(t, retries) ==
  /\ client.tasks[t].pc = "idle"
  /\ client' = [client EXCEPT !.tasks[t] = fetchWithRetry_for(Frame(retries), 0)]
  /\ UNCHANGED <<PORTFOLIO_GAMES, requests, now, isConfigured, conn, call, passed>>

----------------------------------------------------------------------------
(* Client (main.js, current revision): initApp, Stats.load, Games.init     *)

\* the value a JSON body stands for when /api/stats sent it
StatsFor(json) ==
  IF json = "A"
  THEN [totalGames |-> 2, liveGames |-> 1, inDev |-> 1, concepts |-> 0]
  ELSE [totalGames |-> 3, liveGames |-> 2, inDev |-> 0, concepts |-> 1]

\* the value a JSON body stands for when /api/games sent it
GamesFor(json) ==
  IF json = "A"
  THEN <<GamePool[1], GamePool[3]>>
  ELSE <<GamePool[4], GamePool[3], GamePool[2]>>

\* the fallback of API.fetchStats
StubStats == [totalGames |-> 5, liveGames |-> 3, inDev |-> 1, concepts |-> 1]

GamesToast == [message |-> "Failed to load games. Please refresh the page.", type |-> "error"]

Resolved(value, toasts) == [pc |-> "resolved", value |-> value, toasts |-> toasts]
Rejected(value, toasts) == [pc |-> "rejected", value |-> value, toasts |-> toasts]

\* fetchStats whose catch block throws the error on
API_fetchStats_rethrow(task) ==
  IF task.pc = "resolved"
  THEN Resolved(StatsFor(task.value[1]), <<>>)
  ELSE Rejected(task.value[1], <<>>)

\* API.fetchStats once its fetchWithRetry has settled: how its own promise
\* settles, and the toasts it shows
API_fetchStats(task) ==
  IF task.pc = "resolved"
  THEN Resolved(StatsFor(task.value[1]), <<>>)
  ELSE Resolved(StubStats, <<>>)

\* API.fetchGames once its fetchWithRetry has settled
API_fetchGames(task) ==
  IF task.pc = "resolved"
  THEN Resolved(GamesFor(task.value[1]), <<>>)
  ELSE Resolved(<<>>, <<GamesToast>>)

\* the page before DOMContentLoaded; grid tells whether #stats-grid exists
PageLoaded(grid) ==
  [page |-> "initApp", grid |-> grid,
   tasks |-> [t \in {"stats", "games"} |-> NotCalled],
   initApp |-> "idle", caught |-> FALSE,
   Stats_load |-> "idle", fetchStats |-> NotCalled, shown |-> <<>>,
   Games_init |-> "idle", fetchGames |-> NotCalled,
   State |-> [games |-> <<>>, filteredGames |-> <<>>, isLoading |-> FALSE],
   toasts |-> <<>>]

\* initApp up to await Promise.all([Stats.load(), Games.init()]): Stats.load
\* returns at once without #stats-grid and otherwise runs to its await of
\* fetchStats; Games.init runs to loadGames' await of fetchGames
InitApp ==
  /\ client.page = "initApp"
  /\ client.initApp = "idle"
  /\ client' = [client EXCEPT
       !.initApp = "await Promise.all",
       !.Stats_load = IF client.grid THEN "await" ELSE "resolved",
       !.tasks = [t \in {"stats", "games"} |->
                    IF t = "stats" /\ ~client.grid THEN NotCalled
                    ELSE fetchWithRetry_for(Frame(RETRY_ATTEMPTS), 0)],
       !.Games_init = "await",
       !.State.isLoading = TRUE]
  /\ UNCHANGED <<PORTFOLIO_GAMES, requests, now, isConfigured, conn, call, passed>>

\* fetchWithRetry has settled for fetchStats: fetchStats returns, and
\* Stats.load, inside its try block, fills the grid
StatsLoadResumes ==
  /\ client.page = "initApp"
  /\ client.Stats_load = "await"
  /\ Settled(client.tasks["stats"])
  /\ LET stats == API_fetchStats(client.tasks["stats"])
     IN client' = [client EXCEPT
          !.fetchStats = stats,
          !.toasts = @ \o stats.toasts,
          !.shown = IF stats.pc = "resolved" THEN <<stats.value>> ELSE @,
          !.Stats_load = "resolved"]
  /\ UNCHANGED <<PORTFOLIO_GAMES, requests, now, isConfigured, conn, call, passed>>

\* fetchWithRetry has settled for fetchGames: fetchGames returns, loadGames
\* stores the games and applies the filters (none is set yet), and
\* Games.init sets up its controls; loadGames has no catch block
GamesInitResumes ==
  /\ client.page = "initApp"
  /\ client.Games_init = "await"
  /\ Settled(client.tasks["games"])
  /\ LET games == API_fetchGames(client.tasks["games"])
     IN client' = [client EXCEPT
          !.fetchGames = games,
          !.toasts = @ \o games.toasts,
          !.State = IF games.pc = "resolved"
                    THEN [games |-> games.value,
                          filteredGames |-> Games_sortGames(games.value),
                          isLoading |-> FALSE]
                    ELSE @,
          !.Games_init = games.pc]
  /\ UNCHANGED <<PORTFOLIO_GAMES, requests, now, isConfigured, conn, call, passed>>

\* Promise.all settles: resolved when both have resolved, rejected as soon
\* as one has rejected, which initApp's catch block logs
InitAppResumes ==
  /\ client.page = "initApp"
  /\ client.initApp = "await Promise.all"
  /\ LET settled == {client.Stats_load, client.Games_init}
     IN /\ settled = {"resolved"} \/ "rejected" \in settled
        /\ client' = [client EXCEPT !.initApp = "done",
                                    !.caught = "rejected" \in settled]
  /\ UNCHANGED <<PORTFOLIO_GAMES, requests, now, isConfigured, conn, call, passed>>

----------------------------------------------------------------------------
(* Client: ContactForm and API.submitContact, in the current revision      *)
(* (main.js) and in the earliest one (part_000, "part_000")                *)

\* largest number of submit events of the form
MaxSubmits == 3

FormRevs == {"current", "part_000"}

\* what the user types into #email and #message
FormEmails == {<<"a">>, ValidEmail}
FormMessages == {Letters(minMessageLength - 1), Letters(minMessageLength)}

\* ContactForm.validateEmail on the value of #email
ContactForm_validateEmail(value) == value # <<>> /\ emailRegex_test(value)

\* ContactForm.validateMessage on the value of #message: the current
\* revision compares the trimmed length with 0, 10 and 2000, the earliest
\* one only with 10
ContactForm_validateMessage(rev, value) ==
  LET messageLength == textLength(textTrim(value))
  IN IF rev = "current"
     THEN /\ messageLength # 0
          /\ ~(messageLength < minMessageLength)
          /\ ~(messageLength > maxMessageLength)
     ELSE ~(value = <<>> \/ messageLength < minMessageLength)

\* submitContact calling fetchWithRetry without its third argument
API_submitContact_call_defaultRetries(rev) ==
  IF rev = "current"
  THEN fetchWithRetry_for(Frame(RETRY_ATTEMPTS), 0)
  ELSE [Frame(1) EXCEPT !.pc = "fetch", !.inflight = 1, !.calls = <<<<>>>>]

\* API.submitContact up to its await: the current revision calls
\* fetchWithRetry(url, options, 1); the earliest one calls fetch itself,
\* once, which is kept in a frame of the same shape
API_submitContact_call(rev) ==
  IF rev = "current"
  THEN fetchWithRetry_for(Frame(1), 0)
  ELSE [Frame(1) EXCEPT !.pc = "fetch", !.inflight = 1, !.calls = <<<<>>>>]

\* API.submitContact once its request has settled: the data, or the error
\* thrown on from its catch block
API_submitContact(task) ==
  IF task.pc = "resolved"
  THEN Resolved(task.value[1], <<>>)
  ELSE Rejected(task.value[1], <<>>)

\* the earliest revision's submitContact after await fetch(...)
submitContact0_afterFetch(task, outcome) ==
  LET settled == [task EXCEPT !.inflight = @ - 1, !.outcomes = Append(@, outcome)]
  IN IF outcome.kind = "reject"
     THEN [settled EXCEPT !.pc = "rejected", !.value = <<Error("TypeError", 0, 1)>>]
     ELSE IF ~outcome.ok
     THEN [settled EXCEPT !.pc = "rejected", !.value = <<Error("Error", outcome.status, 1)>>]
     ELSE [settled EXCEPT !.pc = "json"]

\* the earliest revision's submitContact after await res.json()
submitContact0_afterJson(task) ==
  LET response == task.outcomes[Len(task.outcomes)]
  IN IF response.json = "SyntaxError"
     THEN [task EXCEPT !.pc = "rejected", !.value = <<Error("SyntaxError", response.status, 1)>>]
     ELSE [task EXCEPT !.pc = "resolved", !.value = <<response.json>>]

\* the page with its contact form, after ContactForm.init; submitBtn tells
\* whether #submit-btn exists. tasks holds the calls of submitContact that
\* handleSubmit is awaiting; posts counts the fetches of the calls that are
\* over, last is how the latest of them ended
ContactPage(rev, submitBtn) ==
  [page |-> "contact", rev |-> rev, submitBtn |-> submitBtn,
   email |-> <<>>, message |-> <<>>,
   isSubmitting |-> FALSE, disabled |-> FALSE,
   tasks |-> [t \in {} |-> NotCalled],
   events |-> 0, accepted |-> 0, posts |-> 0,
   last |-> [ok |-> FALSE, result |-> "none"], toast |-> "none"]

\* the user edits the two fields
Input(email, message) ==
  /\ client.page = "contact"
  /\ <<email, message>> # <<client.email, client.message>>
  /\ client' = [client EXCEPT !.email = email, !.message = message]
  /\ UNCHANGED <<PORTFOLIO_GAMES, requests, now, isConfigured, conn, call, passed>>

\* handleSubmit without the isSubmitting test
Submit_unguarded ==
  /\ client.page = "contact"
  /\ client.events < MaxSubmits
  /\ LET n == client.accepted + 1
     IN client' =
          IF ~(ContactForm_validateEmail(client.email)
               /\ ContactForm_validateMessage(client.rev, client.message))
          THEN [client EXCEPT !.events = @ + 1,
                              !.toast = IF client.rev = "current" THEN @ ELSE "fix"]
          ELSE [client EXCEPT !.events = @ + 1,
                              !.accepted = n,
                              !.isSubmitting = TRUE,
                              !.disabled = IF client.submitBtn THEN TRUE ELSE @,
                              !.tasks = [t \in DOMAIN client.tasks \cup {n} |->
                                           IF t = n THEN API_submitContact_call(client.rev)
                                           ELSE client.tasks[t]]]
  /\ UNCHANGED <<PORTFOLIO_GAMES, requests, now, isConfigured, conn, call, passed>>

\* a submit event: handleSubmit up to its return or its await. It returns
\* at once while isSubmitting, and after validation when a field is invalid
\* (the earliest revision then shows a toast); otherwise it sets
\* isSubmitting, setLoading(true) disables the button, and submitContact
\* issues the request
Submit ==
  /\ client.page = "contact"
  /\ client.events < MaxSubmits
  /\ LET n == client.accepted + 1
     IN client' =
          IF client.isSubmitting
          THEN [client EXCEPT !.events = @ + 1]
          ELSE IF ~(ContactForm_validateEmail(client.email)
                    /\ ContactForm_validateMessage(client.rev, client.message))
          THEN [client EXCEPT !.events = @ + 1,
                              !.toast = IF client.rev = "current" THEN @ ELSE "fix"]
          ELSE [client EXCEPT !.events = @ + 1,
                              !.accepted = n,
                              !.isSubmitting = TRUE,
                              !.disabled = IF client.submitBtn THEN TRUE ELSE @,
                              !.tasks = [t \in DOMAIN client.tasks \cup {n} |->
                                           IF t = n THEN API_submitContact_call(client.rev)
                                           ELSE client.tasks[t]]]
  /\ UNCHANGED <<PORTFOLIO_GAMES, requests, now, isConfigured, conn, call, passed>>

\* the earliest revision: await fetch(...) of submitContact settles
Fetch0Settles(t, outcome) ==
  /\ client.page = "contact"
  /\ client.rev = "part_000"
  /\ t \in DOMAIN client.tasks
  /\ client.tasks[t].pc = "fetch"
  /\ client' = [client EXCEPT !.tasks[t] = submitContact0_afterFetch(@, outcome)]
  /\ UNCHANGED <<PORTFOLIO_GAMES, requests, now, isConfigured, conn, call, passed>>

\* the earliest revision: await res.json() of submitContact settles
Json0Settles(t) ==
  /\ client.page = "contact"
  /\ client.rev = "part_000"
  /\ t \in DOMAIN client.tasks
  /\ client.tasks[t].pc = "json"
  /\ client' = [client EXCEPT !.tasks[t] = submitContact0_afterJson(@)]
  /\ UNCHANGED <<PORTFOLIO_GAMES, requests, now, isConfigured, conn, call, passed>>

\* submitContact has settled and handleSubmit resumes: the success toast
\* and form.reset(), or the catch block's toast; then the finally block
\* clears isSubmitting and setLoading(false) enables the button
HandleSubmitResumes(t) ==
  /\ client.page = "contact"
  /\ t \in DOMAIN client.tasks
  /\ Settled(client.tasks[t])
  /\ LET task == client.tasks[t]
         sent == API_submitContact(task)
     IN client' = [client EXCEPT
          !.toast = IF sent.pc = "resolved" THEN "success" ELSE "failure",
          !.email = IF sent.pc = "resolved" THEN <<>> ELSE @,
          !.message = IF sent.pc = "resolved" THEN <<>> ELSE @,
          !.isSubmitting = FALSE,
          !.disabled = IF client.submitBtn THEN FALSE ELSE @,
          !.posts = @ + Len(task.calls),
          !.last = [ok |-> Parses(task.outcomes[Len(task.outcomes)]), result |-> sent.pc],
          !.tasks = [u \in DOMAIN client.tasks \ {t} |-> client.tasks[u]]]
  /\ UNCHANGED <<PORTFOLIO_GAMES, requests, now, isConfigured, conn, call, passed>>

----------------------------------------------------------------------------
(* Client: the Games section of main.js, in the current revision           *)
(* (main.js:904-1036, "current") and in the earlier one kept at the head   *)
(* of the file (main.js:232-325, "earlier"). Time is in milliseconds.      *)

\* CONFIG.DEBOUNCE_DELAY, in milliseconds
DEBOUNCE_DELAY == 300

\* last millisecond of the clock
MaxClock == 1200
\* most input events on #search-input
MaxInputs == 3

GamesRevs == {"current", "earlier"}

LoadingRush == <<"L", "o", "a", "d", "i", "n", "g", " ", "R", "u", "s", "h">>

\* what API.fetchGames hands to loadGames: the games of a response, or []
GameLists == {<<>>, <<GamePool[5]>>}

\* longer lists, one of them with the game that the earlier revision puts
\* first
LongGameLists ==
  { <<GamePool[4], GamePool[3], GamePool[2], GamePool[1]>>,
    <<GamePool[6], GamePool[5], Game(7, LoadingRush, <<"x", "A">>, Puzzle, InDev, 3), GamePool[1]>> }

\* what the user types into #search-input
SearchValues == {<<>>, <<"A">>, <<"x", "a">>}
\* data-genre of the chips, and the values of #status-select
ChipGenres == {All, Arcade, Puzzle}
SelectStatuses == {All, Live, Concept}

DefaultFilters == [search |-> <<>>, genre |-> All, status |-> All]

\* the comparator of the earlier revision's applyFilters: "Loading Rush"
\* first, then (statusOrder[status] || 99), then (priority || 999)
Earlier_compare(a, b) ==
  IF a.title = LoadingRush THEN -1
  ELSE IF b.title = LoadingRush THEN 1
  ELSE LET statusDiff == rankOr99(statusOrder2, a.status) - rankOr99(statusOrder2, b.status)
       IN IF statusDiff # 0 THEN statusDiff
          ELSE priorityOr999(a.priority) - priorityOr999(b.priority)

\* the three filters of applyFilters, in its order
Games_filtered(State) ==
  LET filters == State.currentFilters
      filtered0 == State.games
      filtered1 == IF filters.search # <<>>
                   THEN filter(filtered0, LAMBDA game :
                          \/ includes(toLowerCase(game.title), filters.search)
                          \/ includes(toLowerCase(game.description), filters.search))
                   ELSE filtered0
      filtered2 == IF filters.genre # All
                   THEN filter(filtered1, LAMBDA game : game.genre = filters.genre)
                   ELSE filtered1
  IN IF filters.status # All
     THEN filter(filtered2, LAMBDA game : game.status = filters.status)
     ELSE filtered2

\* Array.prototype.sort sorts its array in place
Games_sorted(rev, games) ==
  IF rev = "current" THEN Games_sortGames(games) ELSE sort(games, Earlier_compare)

\* applyFilters without the status filter
Games_applyFilters_anyStatus(rev, State) ==
  [State EXCEPT !.filteredGames =
     Games_sorted(rev, Games_filtered([State EXCEPT !.currentFilters.status = All]))]

\* Games.applyFilters: STATE after the call. filtered starts as a copy of
\* STATE.games, so the sort leaves STATE.games as it is
Games_applyFilters(rev, State) ==
  [State EXCEPT !.filteredGames = Games_sorted(rev, Games_filtered(State))]

NoTimer == [pending |-> FALSE, due |-> 0, value |-> <<>>]

\* a debounce that calls setTimeout with no delay
debounce_setTimeout_noDelay(rev, value) ==
  [pending |-> TRUE, due |-> now, value |-> IF rev = "current" THEN value ELSE <<>>]

\* the timer that the debounced function (current revision) or the input
\* listener (earlier revision) sets after clearing the previous one; only the
\* current revision's callback holds the value of the event
debounce_setTimeout(rev, value) ==
  [pending |-> TRUE, due |-> now + DEBOUNCE_DELAY,
   value |-> IF rev = "current" THEN value ELSE <<>>]

\* the page of a revision before Games.init has finished. searchInput is the
\* value of #search-input. inputs counts the input events, last is the
\* latest of them, ranFor the number of the input event whose timer has run
\* last, runs counts the runs of the timer callback; clean tells that the
\* reset button was the last filter control used
GamesPage(rev) ==
  [page |-> "games", rev |-> rev, loaded |-> FALSE,
   State |-> [games |-> <<>>, filteredGames |-> <<>>, currentFilters |-> DefaultFilters],
   searchInput |-> <<>>, timer |-> NoTimer,
   inputs |-> 0, last |-> [time |-> 0, value |-> <<>>], ranFor |-> 0, runs |-> 0,
   clean |-> FALSE]

\* Games.init after its await: loadGames stores the games and applies the
\* filters, setupControls adds the listeners
GamesLoad(games) ==
  /\ client.page = "games"
  /\ ~client.loaded
  /\ client' = [client EXCEPT
       !.loaded = TRUE,
       !.State = Games_applyFilters(client.rev, [client.State EXCEPT !.games = games])]
  /\ UNCHANGED <<PORTFOLIO_GAMES, requests, now, isConfigured, conn, call, passed>>

\* an input event on #search-input: the pending timer is cleared and a new
\* one set, in the current revision for the lower-cased value
SearchInput(value) ==
  /\ client.page = "games"
  /\ client.loaded
  /\ client.inputs < MaxInputs
  /\ now + 2 * DEBOUNCE_DELAY <= MaxClock
  /\ client' = [client EXCEPT
       !.searchInput = value,
       !.timer = debounce_setTimeout(client.rev, toLowerCase(value)),
       !.inputs = @ + 1,
       !.last = [time |-> now, value |-> value],
       !.clean = FALSE]
  /\ UNCHANGED <<PORTFOLIO_GAMES, requests, now, isConfigured, conn, call, passed>>

\* the timer callback runs, not before the timer is due: handleSearchChange
\* with the value of the call in the current revision; the earlier revision
\* reads #search-input when the callback runs
DebounceFires ==
  /\ client.page = "games"
  /\ client.timer.pending
  /\ now >= client.timer.due
  /\ client' = [client EXCEPT
       !.timer = NoTimer,
       !.ranFor = client.inputs,
       !.runs = @ + 1,
       !.State = Games_applyFilters(client.rev,
                   [client.State EXCEPT !.currentFilters.search =
                      IF client.rev = "current" THEN client.timer.value
                      ELSE toLowerCase(client.searchInput)])]
  /\ UNCHANGED <<PORTFOLIO_GAMES, requests, now, isConfigured, conn, call, passed>>

\* a click on a filter chip
ChipClick(genre) ==
  /\ client.page = "games"
  /\ client.loaded
  /\ client' = [client EXCEPT
       !.clean = FALSE,
       !.State = Games_applyFilters(client.rev,
                   [client.State EXCEPT !.currentFilters.genre = genre])]
  /\ UNCHANGED <<PORTFOLIO_GAMES, requests, now, isConfigured, conn, call, passed>>

\* a change of #status-select
StatusChange(status) ==
  /\ client.page = "games"
  /\ client.loaded
  /\ client' = [client EXCEPT
       !.clean = FALSE,
       !.State = Games_applyFilters(client.rev,
                   [client.State EXCEPT !.currentFilters.status = status])]
  /\ UNCHANGED <<PORTFOLIO_GAMES, requests, now, isConfigured, conn, call, passed>>

\* a click on #reset-filters: resetFilters empties #search-input, replaces
\* STATE.currentFilters and applies the filters; it leaves the timer alone
ResetClick ==
  /\ client.page = "games"
  /\ client.loaded
  /\ client' = [client EXCEPT
       !.clean = TRUE,
       !.searchInput = <<>>,
       !.State = Games_applyFilters(client.rev,
                   [client.State EXCEPT !.currentFilters = DefaultFilters])]
  /\ UNCHANGED <<PORTFOLIO_GAMES, requests, now, isConfigured, conn, call, passed>>

\* milliseconds pass on the page
Elapse(ms) ==
  /\ client.page = "games"
  /\ now + ms <= MaxClock
  /\ now' = now + ms
  /\ UNCHANGED <<PORTFOLIO_GAMES, requests, isConfigured, conn, call, client, passed>>

----------------------------------------------------------------------------
(* Client (main.js, current revision): Navigation and the mobile menu *)

\* most events of one page
MaxEvents == 4

\* the sections of the document and the href of the links a[href^="#"]
Sections  == {<<"g", "a", "m", "e", "s">>}
LinkHrefs == {<<"#">>, <<"#", "g", "a", "m", "e", "s">>, <<"#", "t", "e", "a", "m">>}

\* a page with or without #hamburger, #mobile-panel and #mobile-backdrop;
\* the menu is closed and no element carries a class of the menu. listening
\* says whether setupMobileMenu got past its guard and registered the click
\* handlers
NavPage(hamburger, panel, backdrop) ==
  [page |-> "nav", hamburger |-> hamburger, panel |-> panel, backdrop |-> backdrop,
   listening |-> hamburger /\ panel,
   mobileMenuOpen |-> FALSE,
   panelOpen |-> FALSE, hamburgerActive |-> FALSE, bodyNavOpen |-> FALSE,
   frames |-> <<>>, scrolledTo |-> <<>>,
   events |-> 0, last |-> "none"]

\* Navigation.openMobileMenu
Navigation_openMobileMenu(n) ==
  IF ~n.panel \/ ~n.hamburger THEN n
  ELSE [n EXCEPT !.mobileMenuOpen = TRUE, !.panelOpen = TRUE,
                 !.hamburgerActive = TRUE, !.bodyNavOpen = TRUE]

\* closeMobileMenu leaving the class of the body in place
Navigation_closeMobileMenu_bodyKept(n) ==
  IF ~n.panel \/ ~n.hamburger THEN n
  ELSE [n EXCEPT !.mobileMenuOpen = FALSE, !.panelOpen = FALSE,
                 !.hamburgerActive = FALSE]

\* Navigation.closeMobileMenu
Navigation_closeMobileMenu(n) ==
  IF ~n.panel \/ ~n.hamburger THEN n
  ELSE [n EXCEPT !.mobileMenuOpen = FALSE, !.panelOpen = FALSE,
                 !.hamburgerActive = FALSE, !.bodyNavOpen = FALSE]

\* Navigation.toggleMobileMenu
Navigation_toggleMobileMenu(n) ==
  IF n.mobileMenuOpen THEN Navigation_closeMobileMenu(n)
  ELSE Navigation_openMobileMenu(n)

\* Navigation.scrollToSection: nothing without the section; otherwise the
\* menu is closed if it is open and the scroll is left to the next frame
Navigation_scrollToSection(n, sectionId) ==
  IF sectionId \notin Sections THEN n
  ELSE LET closed == IF n.mobileMenuOpen THEN Navigation_closeMobileMenu(n) ELSE n
       IN [closed EXCEPT !.frames = Append(@, sectionId)]

Event(n, name) == [n EXCEPT !.events = @ + 1, !.last = name]

\* a click on #hamburger
HamburgerClick ==
  /\ client.page = "nav"
  /\ client.hamburger
  /\ client.events < MaxEvents
  /\ client' = Event(IF client.listening THEN Navigation_toggleMobileMenu(client)
                     ELSE client, "hamburger")
  /\ UNCHANGED <<PORTFOLIO_GAMES, requests, now, isConfigured, conn, call, passed>>

\* a click on #mobile-backdrop
BackdropClick ==
  /\ client.page = "nav"
  /\ client.backdrop
  /\ client.events < MaxEvents
  /\ client' = Event(IF client.listening THEN Navigation_closeMobileMenu(client)
                     ELSE client, "backdrop")
  /\ UNCHANGED <<PORTFOLIO_GAMES, requests, now, isConfigured, conn, call, passed>>

\* keydown with e.key === 'Escape'
EscapeKey ==
  /\ client.page = "nav"
  /\ client.events < MaxEvents
  /\ client' = Event(IF client.mobileMenuOpen THEN Navigation_closeMobileMenu(client)
                     ELSE client, "escape")
  /\ UNCHANGED <<PORTFOLIO_GAMES, requests, now, isConfigured, conn, call, passed>>

\* a click on a link a[href^="#"], in the navigation bar or in the panel
LinkClick(href) ==
  /\ client.page = "nav"
  /\ client.events < MaxEvents
  /\ client' = Event(IF href = <<"#">> THEN client
                     ELSE Navigation_scrollToSection(client, Tail(href)), "link")
  /\ UNCHANGED <<PORTFOLIO_GAMES, requests, now, isConfigured, conn, call, passed>>

\* the callback given to requestAnimationFrame: section.scrollIntoView
FrameRuns ==
  /\ client.page = "nav"
  /\ client.frames # <<>>
  /\ client' = [client EXCEPT !.frames = Tail(@), !.scrolledTo = Head(client.frames)]
  /\ UNCHANGED <<PORTFOLIO_GAMES, requests, now, isConfigured, conn, call, passed>>

----------------------------------------------------------------------------
(* Client (part_000, earliest revision): the mobile menu and its timers *)

\* closeMobileMenu: setTimeout(() => { panel.hidden = true }, 300)
HideDelay == 300
\* openMobileMenu: setTimeout(() => panel.setAttribute('aria-hidden', 'false'), 10)
AriaDelay == 10

\* a page with #hamburger and #mobile-panel, with or without the backdrop;
\* the panel starts hidden. timers are the pending callbacks of setTimeout
\* in the order of their calls; opened says that openMobileMenu has run and
\* closeMobileMenu has not run since
MenuPage(backdrop) ==
  [page |-> "menu", backdrop |-> backdrop,
   hidden |-> TRUE, ariaHidden |-> TRUE,
   hamburgerActive |-> FALSE, bodyNavOpen |-> FALSE,
   timers |-> <<>>, opened |-> FALSE,
   events |-> 0, last |-> "none"]

Timer(kind, delay) == [kind |-> kind, due |-> now + delay]

\* Navigation.openMobileMenu of part_000
Earliest_openMobileMenu(n) ==
  [n EXCEPT !.hidden = FALSE,
            !.timers = Append(@, Timer("aria", AriaDelay)),
            !.hamburgerActive = TRUE, !.bodyNavOpen = TRUE,
            !.opened = TRUE]

\* Navigation.closeMobileMenu of part_000
Earliest_closeMobileMenu(n) ==
  [n EXCEPT !.ariaHidden = TRUE,
            !.hamburgerActive = FALSE, !.bodyNavOpen = FALSE,
            !.timers = Append(@, Timer("hide", HideDelay)),
            !.opened = FALSE]

\* the click handler of setupSmoothScroll: with a target, scrollIntoView
\* and closeMobileMenu
Earliest_smoothScroll(n, href) ==
  IF href = <<"#">> \/ Tail(href) \notin Sections THEN n
  ELSE Earliest_closeMobileMenu(n)

\* a click on #hamburger: opens a hidden panel, closes any other
MenuHamburgerClick ==
  /\ client.page = "menu"
  /\ client.events < MaxEvents
  /\ client' = Event(IF client.hidden THEN Earliest_openMobileMenu(client)
                     ELSE Earliest_closeMobileMenu(client), "hamburger")
  /\ UNCHANGED <<PORTFOLIO_GAMES, requests, now, isConfigured, conn, call, passed>>

\* a click on the backdrop, which is part of the panel
MenuBackdropClick ==
  /\ client.page = "menu"
  /\ client.backdrop
  /\ ~client.hidden
  /\ client.events < MaxEvents
  /\ client' = Event(Earliest_closeMobileMenu(client), "backdrop")
  /\ UNCHANGED <<PORTFOLIO_GAMES, requests, now, isConfigured, conn, call, passed>>

\* a click on a .mobile-link of the panel: the listener of
\* setupSmoothScroll, registered first, and then the one of setupMobileMenu
MenuMobileLinkClick(href) ==
  /\ client.page = "menu"
  /\ ~client.hidden
  /\ client.events < MaxEvents
  /\ client' = Event(Earliest_closeMobileMenu(Earliest_smoothScroll(client, href)),
                     "mobile-link")
  /\ UNCHANGED <<PORTFOLIO_GAMES, requests, now, isConfigured, conn, call, passed>>

\* a click on a link a[href^="#"] outside the panel
MenuLinkClick(href) ==
  /\ client.page = "menu"
  /\ client.events < MaxEvents
  /\ client' = Event(Earliest_smoothScroll(client, href), "link")
  /\ UNCHANGED <<PORTFOLIO_GAMES, requests, now, isConfigured, conn, call, passed>>

\* keydown with e.key === 'Escape'
MenuEscapeKey ==
  /\ client.page = "menu"
  /\ client.events < MaxEvents
  /\ client' = Event(IF ~client.hidden THEN Earliest_closeMobileMenu(client)
                     ELSE client, "escape")
  /\ UNCHANGED <<PORTFOLIO_GAMES, requests, now, isConfigured, conn, call, passed>>

\* the callback of a timer that is due runs, the one due first before the
\* others and the one set first among those due together
MenuTimerFires ==
  /\ client.page = "menu"
  /\ \E k \in 1..Len(client.timers) :
       /\ now >= client.timers[k].due
       /\ \A j \in 1..Len(client.timers) :
            \/ client.timers[j].due > client.timers[k].due
            \/ client.timers[j].due = client.timers[k].due /\ j >= k
       /\ client' = [client EXCEPT
            !.timers = SubSeq(@, 1, k - 1) \o SubSeq(@, k + 1, Len(@)),
            !.hidden = IF client.timers[k].kind = "hide" THEN TRUE ELSE @,
            !.ariaHidden = IF client.timers[k].kind = "aria" THEN FALSE ELSE @]
  /\ UNCHANGED <<PORTFOLIO_GAMES, requests, now, isConfigured, conn, call, passed>>

\* time passes on the page of the menu
MenuElapse(ms) ==
  /\ client.page = "menu"
  /\ now + ms <= MaxClock
  /\ now' = now + ms
  /\ UNCHANGED <<PORTFOLIO_GAMES, requests, isConfigured, conn, call, client, passed>>

----------------------------------------------------------------------------
(* The catalogue routes of every server revision, one request at a time *)

Init ==
  /\ PORTFOLIO_GAMES \in Catalogues
  /\ requests = [ip \in Clients |-> <<>>]
  /\ now = 0
  /\ isConfigured = FALSE
  /\ conn = [c \in Conns |-> Idle]
  /\ call = NoCall(<<>>)
  /\ client = NoClient
  /\ passed = [ip \in Clients |-> <<>>]

Next ==
  \/ \E s \in SearchParams, g \in GenreParams, st \in StatusParams :
       ProdGetGames("c1", "ip1", s, g, st)
  \/ ProdGetStats("c1", "ip1")
  \/ \E id \in IdParams : ProdGetGameById("c1", "ip1", id)
  \/ \E rev \in StaticRevs, s \in SearchParams, g \in GenreParams, so \in SortParams :
       StaticGetGames("c1", rev, s, g, so)
  \/ StaticGamesTimeout("c1")
  \/ \E rev \in StaticRevs, id \in IdParams : StaticGetGameById("c1", rev, id)
  \/ \E id \in IdParams : SqliteGetGameById("c1", id)
  \/ \E err \in BOOLEAN : SqliteGameByIdCallback("c1", err)

Spec == Init /\ [][Next]_vars

InitSort ==
  /\ PORTFOLIO_GAMES = <<>>
  /\ requests = [ip \in Clients |-> <<>>]
  /\ now = 0
  /\ isConfigured = FALSE
  /\ conn = [c \in Conns |-> Idle]
  /\ \E n \in 0..MaxSortLen : call \in {NoCall(arg) : arg \in SortInputs(n)}
  /\ client = NoClient
  /\ passed = [ip \in Clients |-> <<>>]

NextSort == CallServerSortGames \/ CallClientSortGames

SpecSort == InitSort /\ [][NextSort]_vars

\* POST /api/contact on the production and the static servers; EmailService
\* is configured or not according to the environment at start
InitContact ==
  /\ PORTFOLIO_GAMES = <<>>
  /\ requests = [ip \in Clients |-> <<>>]
  /\ now = 0
  /\ isConfigured \in BOOLEAN
  /\ conn = [c \in Conns |-> Idle]
  /\ call = NoCall(<<>>)
  /\ client = NoClient
  /\ passed = [ip \in Clients |-> <<>>]

NextContact ==
  \/ \E body \in ContactBodies, production \in BOOLEAN :
       ProdPostContact("c1", "ip1", body, production)
  \/ \E resolved, production \in BOOLEAN : ProdSendMailSettles("c1", resolved, production)
  \/ \E rev \in StaticRevs, body \in ContactBodies : StaticPostContact("c1", rev, body)
  \/ \E resolved \in BOOLEAN : StaticSendMailSettles("c1", resolved)
  \/ Tick

SpecContact == InitContact /\ [][NextContact]_vars

\* direct calls of API.fetchWithRetry with any number of retries
InitFetch ==
  /\ PORTFOLIO_GAMES = <<>>
  /\ requests = [ip \in Clients |-> <<>>]
  /\ now = 0
  /\ isConfigured = FALSE
  /\ conn = [c \in Conns |-> Idle]
  /\ call = NoCall(<<>>)
  /\ client = [page |-> "fetchWithRetry", tasks |-> [t \in {"direct"} |-> NotCalled]]
  /\ passed = [ip \in Clients |-> <<>>]

NextFetch ==
  \/ \E retries \in 0..MaxRetries : CallFetchWithRetry("direct", retries)
  \/ \E outcome \in FetchOutcomes : FetchSettles("direct", outcome)
  \/ JsonSettles("direct")
  \/ SleepElapses("direct")

\* every fetch, every response.json() and every timer settles; a call is
\* suspended at one of them at a time
FairFetch(t) ==
  WF_vars(\/ \E outcome \in FetchOutcomes : FetchSettles(t, outcome)
          \/ JsonSettles(t)
          \/ SleepElapses(t))

SpecFetch == InitFetch /\ [][NextFetch]_vars /\ FairFetch("direct")

\* the page from DOMContentLoaded on
InitPage ==
  /\ PORTFOLIO_GAMES = <<>>
  /\ requests = [ip \in Clients |-> <<>>]
  /\ now = 0
  /\ isConfigured = FALSE
  /\ conn = [c \in Conns |-> Idle]
  /\ call = NoCall(<<>>)
  /\ client \in {PageLoaded(grid) : grid \in BOOLEAN}
  /\ passed = [ip \in Clients |-> <<>>]

\* how the fetches of the page's two loaders settle
PageOutcomes == {NetworkError, HttpError(500), Ok("SyntaxError"), Ok("A")}

NextPage ==
  \/ InitApp
  \/ \E t \in {"stats", "games"}, outcome \in PageOutcomes : FetchSettles(t, outcome)
  \/ \E t \in {"stats", "games"} : JsonSettles(t)
  \/ \E t \in {"stats", "games"} : SleepElapses(t)
  \/ StatsLoadResumes
  \/ GamesInitResumes
  \/ InitAppResumes

\* DOMContentLoaded fires, promises that can settle do, and continuations
\* of settled promises run: the event loop does not stop while a step of the
\* page is possible, and no step of the page disables another
SpecPage == InitPage /\ [][NextPage]_vars /\ WF_vars(NextPage)

\* the contact form of either client revision, with or without its button
InitForm ==
  /\ PORTFOLIO_GAMES = <<>>
  /\ requests = [ip \in Clients |-> <<>>]
  /\ now = 0
  /\ isConfigured = FALSE
  /\ conn = [c \in Conns |-> Idle]
  /\ call = NoCall(<<>>)
  /\ client \in {ContactPage(rev, submitBtn) : rev \in FormRevs, submitBtn \in BOOLEAN}
  /\ passed = [ip \in Clients |-> <<>>]

\* the steps that follow from a request in flight
FormProgress ==
  \/ client.rev = "current" /\ \E t \in 1..MaxSubmits, outcome \in FetchOutcomes :
                                  FetchSettles(t, outcome)
  \/ client.rev = "current" /\ \E t \in 1..MaxSubmits : JsonSettles(t)
  \/ \E t \in 1..MaxSubmits, outcome \in FetchOutcomes : Fetch0Settles(t, outcome)
  \/ \E t \in 1..MaxSubmits : Json0Settles(t)
  \/ \E t \in 1..MaxSubmits : HandleSubmitResumes(t)

NextForm ==
  \/ \E email \in FormEmails, message \in FormMessages : Input(email, message)
  \/ Submit
  \/ FormProgress

\* the user may stop typing and submitting; a request in flight settles and
\* the continuation of a settled promise runs
SpecForm == InitForm /\ [][NextForm]_vars /\ WF_vars(FormProgress)

\* the search box of the current revision
InitSearch ==
  /\ PORTFOLIO_GAMES = <<>>
  /\ requests = [ip \in Clients |-> <<>>]
  /\ now = 0
  /\ isConfigured = FALSE
  /\ conn = [c \in Conns |-> Idle]
  /\ call = NoCall(<<>>)
  /\ client = GamesPage("current")
  /\ passed = [ip \in Clients |-> <<>>]

\* time passes and a due timer runs
SearchProgress ==
  \/ DebounceFires
  \/ \E ms \in {DEBOUNCE_DELAY - 1, DEBOUNCE_DELAY} : Elapse(ms)

NextSearch ==
  \/ \E games \in GameLists : GamesLoad(games)
  \/ \E value \in SearchValues : SearchInput(value)
  \/ SearchProgress

\* the user may stop typing; the clock does not stop, and a timer that is
\* due runs at some time
SpecSearch == InitSearch /\ [][NextSearch]_vars /\ WF_vars(SearchProgress)

\* the filter controls of both revisions
InitGames ==
  /\ PORTFOLIO_GAMES = <<>>
  /\ requests = [ip \in Clients |-> <<>>]
  /\ now = 0
  /\ isConfigured = FALSE
  /\ conn = [c \in Conns |-> Idle]
  /\ call = NoCall(<<>>)
  /\ client \in {GamesPage(rev) : rev \in GamesRevs}
  /\ passed = [ip \in Clients |-> <<>>]

NextGames ==
  \/ \E games \in GameLists \cup LongGameLists : GamesLoad(games)
  \/ \E value \in SearchValues : SearchInput(value)
  \/ DebounceFires
  \/ \E genre \in ChipGenres : ChipClick(genre)
  \/ \E status \in SelectStatuses : StatusChange(status)
  \/ ResetClick
  \/ Elapse(DEBOUNCE_DELAY)

SpecGames == InitGames /\ [][NextGames]_vars

\* the catalogue of the production server under a series of queries from
\* two clients, and the page's copy of it under the filter controls
CatalogueSamples ==
  {<<GamePool[3], GamePool[5], GamePool[1]>>, <<GamePool[4], GamePool[2]>>}

CatalogueQueries ==
  [search : {Undefined, <<"a">>}, genre : {Undefined, Arcade}, status : {Undefined}]

InitCatalogue ==
  /\ PORTFOLIO_GAMES \in CatalogueSamples
  /\ requests = [ip \in Clients |-> <<>>]
  /\ now = 0
  /\ isConfigured = FALSE
  /\ conn = [c \in Conns |-> Idle]
  /\ call = NoCall(<<>>)
  /\ client = GamesPage("current")
  /\ passed = [ip \in Clients |-> <<>>]

NextCatalogue ==
  \/ \E q \in CatalogueQueries : ProdGetGames("c1", "ip1", q.search, q.genre, q.status)
  \/ \E q \in CatalogueQueries : ProdGetGames("c2", "ip2", q.search, q.genre, q.status)
  \/ \E c \in Conns : ProdGetStats(c, "ip2")
  \/ \E c \in Conns : NextRequest(c)
  \/ \E games \in LongGameLists : GamesLoad(games)
  \/ \E genre \in ChipGenres : ChipClick(genre)
  \/ ResetClick

SpecCatalogue == InitCatalogue /\ [][NextCatalogue]_vars

\* ContactForm.handleSubmit of the current revision up to its call of
\* API.submitContact, on the values of #email and #message: the bodies it
\* sends, { email, message } with the values as they are in the fields
HandleSubmitValidates ==
  /\ call.fn = "none"
  /\ call' = [fn |-> "ContactForm.handleSubmit", arg |-> call.arg,
              ret |-> IF /\ ContactForm_validateEmail(call.arg.email)
                         /\ ContactForm_validateMessage("current", call.arg.message)
                      THEN <<[email |-> call.arg.email, message |-> call.arg.message]>>
                      ELSE <<>>]
  /\ UNCHANGED <<PORTFOLIO_GAMES, requests, now, isConfigured, conn, client, passed>>

\* the body the form has sent reaches middleware.validateContactForm
ServerValidates ==
  /\ call.fn = "ContactForm.handleSubmit"
  /\ call.ret # <<>>
  /\ call' = [fn |-> "validateContactForm", arg |-> call.ret[1],
              ret |-> validateContactForm(call.ret[1])]
  /\ UNCHANGED <<PORTFOLIO_GAMES, requests, now, isConfigured, conn, client, passed>>

\* every pair of field values goes through the form and, when the form
\* sends it, through the validation of the server
InitValidate ==
  /\ PORTFOLIO_GAMES = <<>>
  /\ requests = [ip \in Clients |-> <<>>]
  /\ now = 0
  /\ isConfigured = FALSE
  /\ conn = [c \in Conns |-> Idle]
  /\ call \in {NoCall([email |-> e, message |-> m]) : e \in Emails, m \in Messages}
  /\ client = NoClient
  /\ passed = [ip \in Clients |-> <<>>]

NextValidate == HandleSubmitValidates \/ ServerValidates

SpecValidate == InitValidate /\ [][NextValidate]_vars

\* the mobile menu of the current revision under clicks and key presses,
\* on pages with and without the elements of the menu
InitNav ==
  /\ PORTFOLIO_GAMES = <<>>
  /\ requests = [ip \in Clients |-> <<>>]
  /\ now = 0
  /\ isConfigured = FALSE
  /\ conn = [c \in Conns |-> Idle]
  /\ call = NoCall(<<>>)
  /\ client \in {NavPage(hamburger, panel, backdrop) :
                    hamburger \in BOOLEAN, panel \in BOOLEAN, backdrop \in BOOLEAN}
  /\ passed = [ip \in Clients |-> <<>>]

NextNav ==
  \/ HamburgerClick
  \/ BackdropClick
  \/ EscapeKey
  \/ \E href \in LinkHrefs : LinkClick(href)
  \/ FrameRuns

SpecNav == InitNav /\ [][NextNav]_vars

\* the mobile menu of the earliest revision under clicks, key presses and
\* the timers of openMobileMenu and closeMobileMenu
InitMenu ==
  /\ PORTFOLIO_GAMES = <<>>
  /\ requests = [ip \in Clients |-> <<>>]
  /\ now = 0
  /\ isConfigured = FALSE
  /\ conn = [c \in Conns |-> Idle]
  /\ call = NoCall(<<>>)
  /\ client \in {MenuPage(backdrop) : backdrop \in BOOLEAN}
  /\ passed = [ip \in Clients |-> <<>>]

NextMenu ==
  \/ MenuHamburgerClick
  \/ MenuBackdropClick
  \/ \E href \in LinkHrefs : MenuMobileLinkClick(href)
  \/ \E href \in LinkHrefs : MenuLinkClick(href)
  \/ MenuEscapeKey
  \/ MenuTimerFires
  \/ MenuElapse(HideDelay)

SpecMenu == InitMenu /\ [][NextMenu]_vars

\* requests of any method and path to each server revision
InitRoute ==
  /\ PORTFOLIO_GAMES = <<>>
  /\ requests = [ip \in Clients |-> <<>>]
  /\ now = 0
  /\ isConfigured = FALSE
  /\ conn = [c \in Conns |-> Idle]
  /\ call = NoCall(<<>>)
  /\ client = NoClient
  /\ passed = [ip \in Clients |-> <<>>]

NextRoute ==
  \/ \E req \in Requests, production \in BOOLEAN : ProdRoute("c1", "ip1", req, production)
  \/ \E rev \in StaticRevs, req \in Requests : StaticRoute("c1", rev, req)
  \/ \E req \in Requests : SqliteRoute("c1", req)

SpecRoute == InitRoute /\ [][NextRoute]_vars

\* requests of two clients to the production server while time passes: an
\* API request, one with a body that is not JSON, a preflight, and one
\* that express.static answers; NODE_ENV has its default, 'development'
LimiterRequests ==
  { [method |-> "GET", path |-> <<SegApi, SegStats>>, file |-> FALSE, badJson |-> FALSE],
    [method |-> "POST", path |-> <<SegApi, SegContact>>, file |-> FALSE, badJson |-> TRUE],
    [method |-> "OPTIONS", path |-> <<SegApi, SegContact>>, file |-> FALSE, badJson |-> FALSE],
    [method |-> "GET", path |-> <<SegApi, SegStats>>, file |-> TRUE, badJson |-> FALSE] }

InitLimiter == InitRoute

NextLimiter ==
  \/ \E ip \in Clients, req \in LimiterRequests : ProdRoute("c1", ip, req, FALSE)
  \/ Tick

SpecLimiter == InitLimiter /\ [][NextLimiter]_vars

----------------------------------------------------------------------------
(* Vocabulary of the properties *)

\* connection c holds a finished exchange of route with a revision in revs
Answered(c, revs, route) ==
  /\ conn[c].req.route = route
  /\ conn[c].req.rev \in revs
  /\ conn[c].wait = "none"

\* ... that was answered with exactly one 200
Returned(c, revs, route) ==
  /\ Answered(c, revs, route)
  /\ Len(conn[c].res) = 1
  /\ conn[c].res[1].status = 200

IsLive(status)  == trim(toLowerCase(status)) = <<"l", "i", "v", "e">>
IsInDev(status) == trim(toLowerCase(status)) = <<"i", "n", " ", "d", "e", "v">>

\* the status rank the specification names: Live 0, In Dev 1, any other 99
SpecRank(g) == IF IsLive(g.status) THEN 0 ELSE IF IsInDev(g.status) THEN 1 ELSE 99

CatalogueIndex(g) == CHOOSE i \in 1..Len(PORTFOLIO_GAMES) : PORTFOLIO_GAMES[i] = g

SameLetter(a, b) == toLowerCaseChar(a) = toLowerCaseChar(b)

\* t occurs in s when case is ignored
ContainsIgnoringCase(s, t) ==
  \E i \in 0..(Len(s) - Len(t)) : \A k \in 1..Len(t) : SameLetter(s[i + k], t[k])

NoRestriction(param) == param \in {Undefined, <<>>, All}

PassesSearch(g, q) ==
  \/ q.search \in {Undefined, <<>>}
  \/ ContainsIgnoringCase(g.title, q.search)
  \/ ContainsIgnoringCase(g.description, q.search)

PassesGenre(g, q) == NoRestriction(q.genre) \/ g.genre = q.genre

\* only the production server takes a status parameter
PassesStatus(g, q) ==
  "status" \in DOMAIN q => (NoRestriction(q.status) \/ g.status = q.status)

ListRevs == {"prod", "static-1", "static-2"}

----------------------------------------------------------------------------
(* Properties *)

\* C1: on the production server the array returned by GET /api/games is
\* ordered by status rank ascending (Live 0, In Dev 1, other 99), then by
\* priority ascending, and games equal on both keys keep their catalogue
\* order; every returned game is a catalogue game.
C1_StableSortByRankThenPriority ==
  \A c \in Conns :
    Returned(c, {"prod"}, "GET /api/games") =>
      LET body == conn[c].res[1].body
      IN /\ \A i \in 1..Len(body) : body[i] \in Range(PORTFOLIO_GAMES)
         /\ \A i, j \in 1..Len(body) :
              i < j =>
                \/ SpecRank(body[i]) < SpecRank(body[j])
                \/ /\ SpecRank(body[i]) = SpecRank(body[j])
                   /\ body[i].priority < body[j].priority
                \/ /\ SpecRank(body[i]) = SpecRank(body[j])
                   /\ body[i].priority = body[j].priority
                   /\ CatalogueIndex(body[i]) < CatalogueIndex(body[j])

\* a returned array in which the sort moved a game forward, two games tie on
\* both keys and two games of one rank differ in priority
C1_Witness ==
  \E c \in Conns :
    /\ Returned(c, {"prod"}, "GET /api/games")
    /\ LET body == conn[c].res[1].body
       IN /\ \E i, j \in 1..Len(body) :
               i < j /\ CatalogueIndex(body[i]) > CatalogueIndex(body[j])
          /\ \E i, j \in 1..Len(body) :
               /\ i < j
               /\ SpecRank(body[i]) = SpecRank(body[j])
               /\ body[i].priority = body[j].priority
          /\ \E i, j \in 1..Len(body) :
               /\ SpecRank(body[i]) = SpecRank(body[j])
               /\ body[i].priority < body[j].priority

\* C2: in the default sort of the static servers (no sort=oldest/alpha) every
\* Live game precedes every In Dev game, which precedes every Concept game.
C2_LiveThenInDevThenConcept ==
  \A c \in Conns :
    ( /\ Returned(c, StaticRevs, "GET /api/games")
      /\ conn[c].req.query.sort = Undefined ) =>
      LET body == conn[c].res[1].body
      IN \A i, j \in 1..Len(body) :
           ( \/ body[i].status = Live /\ body[j].status \in {InDev, Concept}
             \/ body[i].status = InDev /\ body[j].status = Concept ) => i < j

\* C3: in the result of GamesService.sortGames and of Games.sortGames every
\* game whose status, lower-cased and trimmed, is neither 'live' nor 'in dev'
\* comes after every Live and every In Dev game; the result holds the games
\* of the input.
C3_UnknownStatusLast ==
  call.fn \in {"GamesService.sortGames", "Games.sortGames"} =>
    /\ Len(call.ret) = Len(call.arg)
    /\ Range(call.ret) = Range(call.arg)
    /\ \A i, j \in 1..Len(call.ret) :
         ( /\ ~IsLive(call.ret[i].status) /\ ~IsInDev(call.ret[i].status)
           /\ IsLive(call.ret[j].status) \/ IsInDev(call.ret[j].status) ) => j < i

\* either function has moved an unknown status from the front to the back
C3_Witness ==
  /\ call.fn \in {"GamesService.sortGames", "Games.sortGames"}
  /\ Len(call.arg) = 3
  /\ SpecRank(call.arg[1]) = 99
  /\ SpecRank(call.arg[2]) = 1
  /\ call.arg[3].status = LiveLoud
  /\ SpecRank(call.ret[3]) = 99

\* C4: for a genre g other than 'all' (and not empty), every game returned
\* by GET /api/games?genre=g has genre g, and every catalogue game of genre g
\* that passes the other supplied filters is returned; with genre absent,
\* empty or 'all', every catalogue game that passes the other filters is
\* returned.
C4_GenreFilter ==
  \A c \in Conns :
    Returned(c, ListRevs, "GET /api/games") =>
      LET q == conn[c].req.query
          body == conn[c].res[1].body
      IN /\ ~NoRestriction(q.genre) =>
              \A i \in 1..Len(body) : body[i].genre = q.genre
         /\ \A g \in Range(PORTFOLIO_GAMES) :
              (PassesGenre(g, q) /\ PassesSearch(g, q) /\ PassesStatus(g, q))
                => g \in Range(body)

\* a genre request that returned some games and left others of the catalogue out
C4_Witness ==
  \E c \in Conns :
    /\ Returned(c, {"prod"}, "GET /api/games")
    /\ conn[c].req.query.genre = Puzzle
    /\ conn[c].res[1].body # <<>>
    /\ \E g \in Range(PORTFOLIO_GAMES) :
         g.genre = Arcade /\ PassesSearch(g, conn[c].req.query)
                          /\ PassesStatus(g, conn[c].req.query)

\* the client's order of the filters: search, then genre, then status
SearchThenGenre(q) ==
  LET bySearch == filter(PORTFOLIO_GAMES, LAMBDA g : PassesSearch(g, q))
      byGenre  == filter(bySearch, LAMBDA g : PassesGenre(g, q))
  IN filter(byGenre, LAMBDA g : PassesStatus(g, q))

\* C5: GET /api/games?search=term returns exactly the catalogue games (each
\* once) whose title or description contains term when case is ignored,
\* among those that pass the other filters; an empty or absent search
\* restricts nothing; the production result is the one obtained by
\* filtering by search before genre.
C5_SearchFilter ==
  \A c \in Conns :
    Returned(c, ListRevs, "GET /api/games") =>
      LET q == conn[c].req.query
          body == conn[c].res[1].body
      IN /\ Range(body) = {g \in Range(PORTFOLIO_GAMES) :
                             PassesSearch(g, q) /\ PassesGenre(g, q) /\ PassesStatus(g, q)}
         /\ Len(body) = Cardinality(Range(body))
         /\ conn[c].req.rev = "prod" =>
              body = GamesService_sortGames(SearchThenGenre(q))

\* a search typed in upper case that matched a lower-case title or
\* description, together with a genre filter, and that left a game out
C5_Witness ==
  \E c \in Conns :
    /\ Returned(c, {"prod"}, "GET /api/games")
    /\ conn[c].req.query.search = <<"B">>
    /\ conn[c].req.query.genre = Puzzle
    /\ \E i \in 1..Len(conn[c].res[1].body) :
         /\ ~includes(conn[c].res[1].body[i].title, <<"B">>)
         /\ ~includes(conn[c].res[1].body[i].description, <<"B">>)
    /\ \E g \in Range(PORTFOLIO_GAMES) :
         g.genre = Puzzle /\ g \notin Range(conn[c].res[1].body)

\* the games whose id is the number the requested id spells
GamesWithId(idParam) ==
  {g \in Range(PORTFOLIO_GAMES) :
     /\ idParam # <<>>
     /\ \A i \in 1..Len(idParam) : isDigit(idParam[i])
     /\ decimal(idParam) = g.id}

\* C6: in the static and SQLite revisions GET /api/games/:id sends exactly
\* one response: the Game whose id equals the requested id when there is
\* one, otherwise 404 {error: 'Game not found'} (a database error, answered
\* 500, is left aside).
C6_GameByIdOr404 ==
  \A c \in Conns :
    Answered(c, StaticRevs \cup {"sqlite"}, "GET /api/games/:id") =>
      /\ Len(conn[c].res) = 1
      /\ conn[c].res[1].status # 500 =>
           IF GamesWithId(conn[c].req.id) # {}
           THEN /\ conn[c].res[1].status = 200
                /\ conn[c].res[1].body \in GamesWithId(conn[c].req.id)
           ELSE conn[c].res[1] = GameNotFound

\* C7: the production server answers GET /api/games/:id with the Game of
\* that id when the id is in PORTFOLIO_GAMES, and with 404 and a JSON
\* {error} body when it is not (a request the limiter rejects aside).
C7_ProdGameByIdOr404 ==
  \A c \in Conns :
    ( /\ Answered(c, {"prod"}, "GET /api/games/:id")
      /\ conn[c].res # <<TooManyRequests>> ) =>
      /\ Len(conn[c].res) = 1
      /\ IF GamesWithId(conn[c].req.id) # {}
         THEN /\ conn[c].res[1].status = 200
              /\ conn[c].res[1].body \in GamesWithId(conn[c].req.id)
         ELSE /\ conn[c].res[1].status = 404
              /\ conn[c].res[1].json

\* connection c holds an exchange of POST /api/contact with a revision in revs
ContactExchange(c, revs) ==
  /\ conn[c].req.route = "POST /api/contact"
  /\ conn[c].req.rev \in revs

\* the shape local@domain.tld: no white space, one "@" with something before
\* it, and after it a "." that has something on both sides
WellFormedEmail(body) ==
  /\ "email" \in DOMAIN body
  /\ LET e == body.email
         ats == {i \in 1..Len(e) : e[i] = "@"}
     IN /\ \A i \in 1..Len(e) : e[i] \notin WhiteSpace
        /\ Cardinality(ats) = 1
        /\ \A at \in ats :
             at > 1 /\ \E d \in (at + 2)..(Len(e) - 1) : e[d] = "."

\* the exchange was refused with one 400 carrying success:false and no mail
Refused400(c) ==
  /\ conn[c].wait = "none"
  /\ Len(conn[c].res) = 1
  /\ conn[c].res[1].status = 400
  /\ conn[c].res[1].body.success = FALSE
  /\ conn[c].mails = 0

\* the exchange was refused by the rate limiter, and no mail was sent
Refused429(c) ==
  /\ conn[c].wait = "none"
  /\ conn[c].res = <<TooManyRequests>>
  /\ conn[c].mails = 0

\* C8 as stated: a POST /api/contact on the production server whose email
\* does not have the shape local@domain.tld is answered 400 with
\* success:false, and no email is sent for it.
C8_InvalidEmail400 ==
  \A c \in Conns :
    (ContactExchange(c, {"prod"}) /\ ~WellFormedEmail(conn[c].req.body))
      => Refused400(c)

\* C8 amended: such a request is answered 400 with success:false, or 429 with
\* success:false when the rate limiter rejects it first; no email is sent
\* for it in either case.
C8_InvalidEmail400Or429 ==
  \A c \in Conns :
    (ContactExchange(c, {"prod"}) /\ ~WellFormedEmail(conn[c].req.body))
      => (Refused400(c) \/ Refused429(c))

\* an email with a second "@", sent with an acceptable message, was refused
\* for its format
C8_Witness ==
  \E c \in Conns :
    /\ ContactExchange(c, {"prod"})
    /\ conn[c].req.body = [email |-> <<"a", "@", "a", "@", "a", ".", "a">>,
                           message |-> Letters(minMessageLength)]
    /\ Refused400(c)
    /\ conn[c].res[1].body.error = "Invalid email format."

TooShort(m) == isString(m) /\ textLength(textTrim(m)) < minMessageLength
TooLong(m)  == isString(m) /\ textLength(m) > maxMessageLength

LengthErrors ==
  {"Message must be at least 10 characters long.", "Message cannot exceed 2000 characters."}

\* C9 as stated: on the production server a message of fewer than 10
\* characters after trimming, or of more than 2000 characters, is rejected
\* with 400; a message of exactly 10 trimmed characters (and at most 2000 in
\* all) is not rejected for its length.
C9_MessageLength400 ==
  \A c \in Conns :
    (ContactExchange(c, {"prod"}) /\ "message" \in DOMAIN conn[c].req.body) =>
      LET m == conn[c].req.body.message
      IN /\ (TooShort(m) \/ TooLong(m)) => Refused400(c)
         /\ ( /\ textLength(textTrim(m)) = minMessageLength
              /\ ~TooLong(m)
              /\ conn[c].wait = "none" ) =>
              ~(conn[c].res[1].status = 400 /\ conn[c].res[1].body.error \in LengthErrors)

\* C9 amended: such a message is rejected with 400, or with 429 when the
\* rate limiter rejects the request first; a message of exactly 10 trimmed
\* characters is not rejected for its length.
C9_MessageLength400Or429 ==
  \A c \in Conns :
    (ContactExchange(c, {"prod"}) /\ "message" \in DOMAIN conn[c].req.body) =>
      LET m == conn[c].req.body.message
      IN /\ (TooShort(m) \/ TooLong(m)) => (Refused400(c) \/ Refused429(c))
         /\ ( /\ textLength(textTrim(m)) = minMessageLength
              /\ ~TooLong(m)
              /\ conn[c].wait = "none" ) =>
              ~(conn[c].res[1].status = 400 /\ conn[c].res[1].body.error \in LengthErrors)

\* a message of twelve characters, nine after trimming, sent with a valid
\* email, was refused for being too short
C9_Witness ==
  \E c \in Conns :
    /\ ContactExchange(c, {"prod"})
    /\ conn[c].req.body =
         [email |-> ValidEmail,
          message |-> <<Run(" ", 1), Run("x", minMessageLength - 1), Run(" ", 2)>>]
    /\ Refused400(c)
    /\ conn[c].res[1].body.error = "Message must be at least 10 characters long."

\* C10: on the static email-sending servers a POST /api/contact with a
\* well-formed email and a non-empty message of fewer than 10 characters is
\* answered 400 and never reaches transporter.sendMail.
C10_StaticShortMessage400 ==
  \A c \in Conns :
    ( /\ ContactExchange(c, StaticRevs)
      /\ WellFormedEmail(conn[c].req.body)
      /\ ~fieldFalsy(conn[c].req.body, "message")
      /\ TooShort(conn[c].req.body.message) ) =>
      /\ conn[c].mails = 0
      /\ conn[c].wait = "none" => conn[c].res[1].status = 400

\* the exchange entered the named stage of the production POST /api/contact
Entered(c, stage) == \E k \in 1..Len(conn[c].ran) : conn[c].ran[k] = stage

\* C11: a production POST /api/contact that passed validateContactForm is
\* answered 503 without a call of sendContactEmail when the email service
\* is not configured; otherwise, once sendMail has settled, it is answered
\* 200 {success: true, message, id} if sendMail resolved and 500 with
\* success:false if it rejected; no 200 is sent without a delivered mail.
C11_ContactOutcomes ==
  \A c \in Conns :
    (ContactExchange(c, {"prod"}) /\ Entered(c, "isConfigured")) =>
      /\ ~isConfigured =>
           /\ conn[c].wait = "none"
           /\ Len(conn[c].res) = 1
           /\ conn[c].res[1].status = 503
           /\ ~Entered(c, "sendContactEmail")
           /\ conn[c].mails = 0
      /\ (isConfigured /\ conn[c].wait = "none") =>
           /\ Len(conn[c].res) = 1
           /\ conn[c].mails = 1
           /\ IF conn[c].delivered = 1
              THEN /\ conn[c].res[1].status = 200
                   /\ conn[c].res[1].body.success = TRUE
                   /\ DOMAIN conn[c].res[1].body = {"success", "message", "id"}
              ELSE /\ conn[c].res[1].status = 500
                   /\ conn[c].res[1].body.success = FALSE
      /\ \A k \in 1..Len(conn[c].res) :
           conn[c].res[k].status = 200 => conn[c].delivered = 1

\* sendMail was called for a valid submission and rejected, and the
\* client was told 500
C11_Witness ==
  \E c \in Conns :
    /\ ContactExchange(c, {"prod"})
    /\ Entered(c, "sendContactEmail")
    /\ conn[c].wait = "none"
    /\ conn[c].mails = 1
    /\ conn[c].delivered = 0
    /\ conn[c].res[1].status = 500

\* the number of catalogue games whose status is exactly the given one
WithStatus(status) ==
  Cardinality({i \in 1..Len(PORTFOLIO_GAMES) : PORTFOLIO_GAMES[i].status = status})

\* C12: GET /api/stats on the production server returns exactly the fields
\* totalGames, liveGames, inDev and concepts; totalGames is the catalogue
\* size, the other three are the numbers of catalogue games whose status is
\* 'Live', 'In Dev' and 'Concept'; the three add up to totalGames whenever
\* every catalogue status is one of those.
C12_StatsCounts ==
  \A c \in Conns :
    Returned(c, {"prod"}, "GET /api/stats") =>
      LET stats == conn[c].res[1].body
      IN /\ DOMAIN stats = {"totalGames", "liveGames", "inDev", "concepts"}
         /\ stats.totalGames = Len(PORTFOLIO_GAMES)
         /\ stats.liveGames = WithStatus(Live)
         /\ stats.inDev = WithStatus(InDev)
         /\ stats.concepts = WithStatus(Concept)
         /\ (\A i \in 1..Len(PORTFOLIO_GAMES) :
               PORTFOLIO_GAMES[i].status \in {Live, InDev, Concept})
              => stats.liveGames + stats.inDev + stats.concepts = stats.totalGames

\* the statistics of a catalogue with a 'LIVE ' game next to a 'Live' one
\* were returned: one live game out of two
C12_Witness ==
  \E c \in Conns :
    /\ Returned(c, {"prod"}, "GET /api/stats")
    /\ \E i \in 1..Len(PORTFOLIO_GAMES) : PORTFOLIO_GAMES[i].status = LiveLoud
    /\ conn[c].res[1].body.totalGames = 2
    /\ conn[c].res[1].body.liveGames = 1

\* the calls of fetchWithRetry that were made with retries >= 1
RetryTasks ==
  {t \in DOMAIN client.tasks : client.tasks[t].pc # "idle" /\ client.tasks[t].retries >= 1}

\* at most one fetch of the call is in flight, and only while it awaits it
OneAtATime(task) ==
  /\ task.inflight <= 1
  /\ task.inflight = 1 <=> task.pc = "fetch"

AtMostRetries(task) == Len(task.calls) <= task.retries

\* the k-th fetch was issued after sleeps of RETRY_DELAY, 2 * RETRY_DELAY, ...,
\* (k - 1) * RETRY_DELAY had elapsed, and of no others
LinearBackoff(task) ==
  \A k \in 1..Len(task.calls) :
    /\ Len(task.calls[k]) = k - 1
    /\ \A j \in 1..(k - 1) : task.calls[k][j] = RETRY_DELAY * j

\* a rejection comes after exactly retries attempts, carries the error of the
\* last one, and is not preceded by a sleep after that attempt
RejectsWithLastError(task) ==
  task.pc = "rejected" =>
    /\ Len(task.calls) = task.retries
    /\ Len(task.outcomes) = task.retries
    /\ task.value[1].attempt = task.retries
    /\ task.value[1].status = task.outcomes[task.retries].status
    /\ Len(task.slept) = task.retries - 1
    /\ task.sleeping = 0

\* the response of attempt k ends the call: no fetch follows it, and the call
\* resolves to its body
EndsCall(task, k) ==
  /\ k = Len(task.calls)
  /\ task.pc \in {"json", "resolved"}
  /\ task.pc = "resolved" => task.value = <<task.outcomes[k].json>>

\* C13 as stated, its safety part: with retries >= 1 the attempts are made
\* one at a time, there are at most retries of them, the first HTTP-ok
\* response ends the call, which returns its body; attempt k+1 comes after
\* sleeps of RETRY_DELAY * 1 .. RETRY_DELAY * k; the rejection after the last
\* failed attempt carries that attempt's error and follows no further sleep.
C13_RetryFirstOk ==
  \A t \in RetryTasks :
    LET task == client.tasks[t]
    IN /\ OneAtATime(task)
       /\ AtMostRetries(task)
       /\ LinearBackoff(task)
       /\ RejectsWithLastError(task)
       /\ \A k \in 1..Len(task.outcomes) : task.outcomes[k].ok => EndsCall(task, k)

C13_Safety ==
  \A t \in RetryTasks :
    LET task == client.tasks[t]
    IN /\ OneAtATime(task)
       /\ AtMostRetries(task)
       /\ LinearBackoff(task)
       /\ RejectsWithLastError(task)
       /\ \A k \in 1..Len(task.outcomes) : Parses(task.outcomes[k]) => EndsCall(task, k)
       /\ task.pc = "resolved" => Parses(task.outcomes[Len(task.outcomes)])
       /\ \A k \in 1..Len(task.outcomes) :
            (~Parses(task.outcomes[k]) /\ k < task.retries /\ task.pc # "json")
              => \/ Len(task.calls) > k
                 \/ task.pc = "sleep" /\ task.sleeping = RETRY_DELAY * k

\* C13 amended: as stated, except that the response that ends the call is the
\* first one that is HTTP ok and whose body parses as JSON; an ok response
\* whose body does not parse is a failed attempt like any other. Every call
\* settles when every fetch, json() and timer settles.
C13_RetryFirstParsed ==
  /\ []C13_Safety
  /\ \A t \in {"direct"} :
       (client.tasks[t].pc # "idle") ~> Settled(client.tasks[t])

\* a call with retries = 3 resolved with the body of its third response,
\* after an ok response that was not JSON and a 500, having slept 1000 and
\* 2000 ms
C13_Witness ==
  \E t \in RetryTasks :
    /\ client.tasks[t].retries = 3
    /\ client.tasks[t].pc = "resolved"
    /\ client.tasks[t].outcomes = <<Ok("SyntaxError"), HttpError(500), Ok("B")>>
    /\ client.tasks[t].value = <<"B">>
    /\ client.tasks[t].slept = <<RETRY_DELAY, 2 * RETRY_DELAY>>

\* all RETRY_ATTEMPTS attempts of the call failed
Exhausted(task) ==
  /\ task.pc = "rejected"
  /\ Len(task.outcomes) = RETRY_ATTEMPTS
  /\ \A k \in 1..RETRY_ATTEMPTS : ~Parses(task.outcomes[k])

C14_Safety ==
  client.page = "initApp" =>
    /\ client.fetchStats.pc # "rejected"
    /\ client.fetchGames.pc # "rejected"
    /\ (client.fetchStats.pc = "resolved" /\ Exhausted(client.tasks["stats"]))
         => client.fetchStats.value = StubStats
    /\ (client.fetchGames.pc = "resolved" /\ Exhausted(client.tasks["games"]))
         => /\ client.fetchGames.value = <<>>
            /\ \E k \in 1..Len(client.toasts) : client.toasts[k].type = "error"
    /\ client.Stats_load # "rejected"
    /\ client.Games_init # "rejected"
    /\ ~client.caught

\* C14: API.fetchStats and API.fetchGames never reject; when all
\* RETRY_ATTEMPTS attempts have failed fetchStats resolves to the stub
\* statistics {5, 3, 1, 1} and fetchGames to the empty list with an error
\* toast shown; Stats.load and Games.init resolve and initApp gets past its
\* Promise.all, whose rejection it never has to catch.
C14_LoadersNeverReject ==
  /\ []C14_Safety
  /\ (client.page = "initApp") ~>
       ( /\ client.Stats_load = "resolved"
         /\ client.Games_init = "resolved"
         /\ client.initApp = "done" )

\* every attempt of both loaders failed, in different ways, and the page
\* finished loading with the stub statistics shown and no games
C14_Witness ==
  /\ client.page = "initApp"
  /\ client.initApp = "done"
  /\ Exhausted(client.tasks["stats"])
  /\ Exhausted(client.tasks["games"])
  /\ client.tasks["games"].outcomes = <<NetworkError, HttpError(500), Ok("SyntaxError")>>
  /\ client.shown = <<StubStats>>
  /\ client.State.games = <<>>
  /\ ~client.State.isLoading
  /\ client.toasts = <<GamesToast>>

\* C15: every submission that handleSubmit accepts issues exactly one POST
\* /api/contact: its call never sleeps to try again and never fetches twice,
\* whatever the outcome; the first failure rejects the call, and a failed
\* request reaches handleSubmit as a rejection of submitContact.
C15_OnePostPerSubmission ==
  client.page = "contact" =>
    /\ \A t \in DOMAIN client.tasks :
         LET task == client.tasks[t]
         IN /\ Len(task.calls) = 1
            /\ task.slept = <<>>
            /\ task.pc # "sleep"
            /\ (Len(task.outcomes) = 1 /\ ~Parses(task.outcomes[1]) /\ task.pc # "json")
                 => task.pc = "rejected"
    /\ client.posts + Cardinality(DOMAIN client.tasks) = client.accepted
    /\ client.last.result # "none" =>
         client.last.result = (IF client.last.ok THEN "resolved" ELSE "rejected")

\* in the current revision one submission was accepted, its only request
\* failed, and handleSubmit showed the failure toast
C15_Witness ==
  /\ client.page = "contact"
  /\ client.rev = "current"
  /\ client.accepted = 1
  /\ client.posts = 1
  /\ client.last = [ok |-> FALSE, result |-> "rejected"]
  /\ client.toast = "failure"
  /\ ~client.isSubmitting

\* connection c holds a request that went through the whole chain of a server
Dispatched(c) == conn[c].req.route = "any" /\ conn[c].wait = "none"

\* neither express.static nor a route of the revision answers the request
Unmatched(rev, req) == ~servesFile(req) /\ ~routed(rev, req)

\* C16 as stated: a request that no static file and no API route matches and
\* whose path does not start with /api is answered with index.html; a
\* request whose path starts with /api is never answered with index.html,
\* and gets a 404 when nothing matches it.
C16_SpaFallback ==
  \A c \in Conns :
    Dispatched(c) =>
      LET req == conn[c].req.req
          res == conn[c].res[1]
      IN /\ (Unmatched(conn[c].req.rev, req) /\ ~startsWithApi(req.path)) => res = IndexHtml
         /\ startsWithApi(req.path) => res.body # "index.html"
         /\ (Unmatched(conn[c].req.rev, req) /\ startsWithApi(req.path)) => res.status = 404

\* the production rate limiter refused the request
Limited(c) == conn[c].req.rev = "prod" /\ conn[c].res[1].status = 429

\* C16 amended: for a request other than OPTIONS whose body express.json
\* accepts, the same holds except that the production server answers 429
\* when the path lies under the /api mount (in any letter case) and the
\* rate limiter refuses the client; an OPTIONS request is answered 204 by
\* cors, and any other request whose body is not JSON is answered 400 (500
\* by the SQLite revision); neither is answered with index.html.
C16_SpaFallbackPastParserAndLimiter ==
  \A c \in Conns :
    Dispatched(c) =>
      LET req == conn[c].req.req
          res == conn[c].res[1]
          parsed == ~preflight(req) /\ ~req.badJson
      IN /\ (parsed /\ Unmatched(conn[c].req.rev, req) /\ ~startsWithApi(req.path))
              => (res = IndexHtml \/ (Limited(c) /\ mounted(req.path)))
         /\ startsWithApi(req.path) => res.body # "index.html"
         /\ (parsed /\ Unmatched(conn[c].req.rev, req) /\ startsWithApi(req.path))
              => (res.status = 404 \/ Limited(c))
         /\ preflight(req) => res = Preflight
         /\ (req.badJson /\ ~preflight(req)) =>
              /\ res.status = (IF conn[c].req.rev = "sqlite" THEN 500 ELSE 400)
              /\ res.body # "index.html"

\* the production server answered GET /apix, which no route matches, with
\* a 404 and not with index.html, and did not count it against the client
C16_Witness ==
  \E c \in Conns :
    /\ Dispatched(c)
    /\ conn[c].req.rev = "prod"
    /\ conn[c].req.req = [method |-> "GET", path |-> <<SegApix>>, file |-> FALSE, badJson |-> FALSE]
    /\ conn[c].res[1].status = 404
    /\ passed[conn[c].req.ip] = <<>>

\* the number of requests of ip the limiter passed on at a time t with
\* from <= t < from + windowMs
admittedIn(ip, from) ==
  Cardinality({k \in 1..Len(passed[ip]) :
                 from <= passed[ip][k] /\ passed[ip][k] < from + windowMs})

\* maxRequests passed requests of ip lie within the window that ends now
WindowFull(ip) == admittedIn(ip, now - windowMs + 1) >= maxRequests

\* no window of length windowMs holds more than maxRequests passed requests
WindowBound ==
  \A ip \in Clients : \A from \in (0 - windowMs)..MaxTime : admittedIn(ip, from) <= maxRequests

\* this step is a request to the production server
Arrives == now' = now /\ conn'["c1"].req.route = "any" /\ conn'["c1"].req.rev = "prod"

\* a request of one client changes neither the list nor the decision of
\* another client
Independent ==
  Arrives =>
    \A other \in Clients \ {conn'["c1"].req.ip} :
      /\ requests'[other] = requests[other]
      /\ passed'[other] = passed[other]
      /\ rateLimited(other)' = rateLimited(other)

\* the answer of the limiter, with nothing passed on
Refused ==
  /\ conn'["c1"].res = <<Answer("createRateLimiter", 429, TRUE, TooManyRequests.body.error)>>
  /\ passed' = passed

\* C17 as stated: per client, no window of length windowMs (one that holds
\* its start and not its end) has more than maxRequests requests passed on;
\* an API request arriving when maxRequests passed requests of its client
\* lie in the window that ends at its arrival is answered 429 and nothing
\* is passed on; a request of one client leaves the decision for another
\* client unchanged.
C17_RateLimit ==
  /\ []WindowBound
  /\ [][Independent]_vars
  /\ [][(Arrives /\ mounted(conn'["c1"].req.req.path) /\ WindowFull(conn'["c1"].req.ip))
          => Refused]_vars

\* the request gets as far as the limiter: cors, express.json and
\* express.static all called next() and the path lies under /api
ReachesLimiter(req) ==
  ~preflight(req) /\ ~req.badJson /\ ~servesFile(req) /\ mounted(req.path)

\* C17 amended: the same, for the requests that reach the limiter; an
\* OPTIONS request, a request whose body is not JSON and a request that
\* express.static answers are answered before the limiter (204, 400, the
\* file), are passed on to no handler and are not counted.
C17_RateLimitOfRequestsReachingLimiter ==
  /\ []WindowBound
  /\ [][Independent]_vars
  /\ [][Arrives =>
          LET ip == conn'["c1"].req.ip
              req == conn'["c1"].req.req
          IN /\ (ReachesLimiter(req) /\ WindowFull(ip)) => Refused
             /\ ~ReachesLimiter(req) =>
                  /\ conn'["c1"].res[1].by \in {"cors", "errorHandler", "express.static"}
                  /\ passed' = passed /\ requests' = requests]_vars

\* ip1 has had maxRequests requests passed on within the window and its
\* next one refused, while ip2 was admitted in the same millisecond
C17_Witness ==
  /\ conn["c1"].req.route = "any"
  /\ conn["c1"].req.ip = "ip1"
  /\ conn["c1"].res[1].status = 429
  /\ WindowFull("ip1")
  /\ Len(passed["ip2"]) >= 1
  /\ passed["ip2"][Len(passed["ip2"])] = now
  /\ ~rateLimited("ip2")
  /\ now > 0

\* the stored list of ip is the tail of the list of its passed requests
OnlyAdmitted(ip) ==
  /\ Len(requests[ip]) <= Len(passed[ip])
  /\ requests[ip] = SubSeq(passed[ip], Len(passed[ip]) - Len(requests[ip]) + 1, Len(passed[ip]))

\* C18: the list stored for each IP holds at most maxRequests entries, all
\* of them timestamps of requests the limiter passed on; a request answered
\* 429 leaves the lists as they were, and whether a client is refused
\* depends on its passed requests within the window only.
C18_LimiterState ==
  /\ [](\A ip \in Clients :
          /\ Len(requests[ip]) <= maxRequests
          /\ OnlyAdmitted(ip)
          /\ rateLimited(ip) <=> WindowFull(ip))
  /\ [][(Arrives /\ conn'["c1"].res[1].status = 429) => requests' = requests]_vars

\* ip1's list is full of the requests passed on in this window, older
\* passed requests have been dropped from it, and its last request was
\* answered 429
C18_Witness ==
  /\ conn["c1"].req.route = "any"
  /\ conn["c1"].req.ip = "ip1"
  /\ conn["c1"].res[1].status = 429
  /\ Len(requests["ip1"]) = maxRequests
  /\ Len(passed["ip1"]) > maxRequests
  /\ requests["ip2"] = <<>>

\* the message of the first check of the validation that the body fails, in
\* the order missing fields, email format, minimum length, maximum length
FirstFailingCheck(body) ==
  IF fieldFalsy(body, "email") \/ fieldFalsy(body, "message")
  THEN "Email and message are required fields."
  ELSE IF ~emailRegex_test(body.email) THEN "Invalid email format."
  ELSE IF TooShort(body.message) THEN "Message must be at least 10 characters long."
  ELSE IF TooLong(body.message) THEN "Message cannot exceed 2000 characters."
  ELSE "none"

\* C19: a production POST /api/contact runs the stages rate limit, field
\* validation (missing fields, email format, minimum length, maximum
\* length), configuration check, send in this order; once it is finished it
\* has exactly one response, whose status is that of the stage it stopped
\* in (429, 400, 503, and 500 for a failed send, 200 for a delivered one);
\* sendMail is called only after every earlier stage has passed.
C19_ContactStageOrder ==
  \A c \in Conns :
    ContactExchange(c, {"prod"}) =>
      LET x == conn[c]
          last == Len(x.ran)
      IN /\ x.wait = "none" =>
              /\ Len(x.res) = 1
              /\ x.res[1].status =
                   (CASE last = 1 -> 429
                      [] last = 2 -> 400
                      [] last = 3 -> 503
                      [] last = 4 -> IF x.delivered = 1 THEN 200 ELSE 500)
              /\ last = 2 => x.res[1].body.error = FirstFailingCheck(x.req.body)
         /\ x.wait # "none" => x.res = <<>>
         /\ last >= 3 => FirstFailingCheck(x.req.body) = "none"
         /\ last >= 2 => passed[x.req.ip] # <<>>
         /\ x.mails >= 1 =>
              /\ x.mails = 1
              /\ last = 4
              /\ FirstFailingCheck(x.req.body) = "none"

\* the fields pass the form's own validation
FormValid ==
  /\ ContactForm_validateEmail(client.email)
  /\ ContactForm_validateMessage(client.rev, client.message)

\* at most one call of submitContact is awaited and at most one request is
\* in flight; isSubmitting is set exactly while a call is awaited, and the
\* button, where there is one, is disabled exactly then
OneSubmission ==
  /\ Cardinality(DOMAIN client.tasks) <= 1
  /\ \A t \in DOMAIN client.tasks : client.tasks[t].inflight <= 1
  /\ client.isSubmitting <=> DOMAIN client.tasks # {}
  /\ client.submitBtn => (client.disabled <=> client.isSubmitting)

\* a submit event while isSubmitting changes nothing but the count of
\* events; one with valid fields while it is clear is accepted
SubmitGuard ==
  client'.events = client.events + 1 =>
    /\ client.isSubmitting => client' = [client EXCEPT !.events = @ + 1]
    /\ (~client.isSubmitting /\ FormValid) =>
         /\ client'.accepted = client.accepted + 1
         /\ client'.isSubmitting
         /\ DOMAIN client'.tasks = {client'.accepted}

\* C20: under any interleaving of submit events and completions the form
\* has at most one contact request in flight; a submit event while
\* isSubmitting sends nothing; and once the request has completed,
\* successfully or not, isSubmitting and the button's disabled state are
\* false again and the next valid submit is accepted.
C20_NoDoubleSubmission ==
  /\ []OneSubmission
  /\ [][SubmitGuard]_vars
  /\ (client.isSubmitting ~> (~client.isSubmitting /\ ~client.disabled))

\* a first submission failed, isSubmitting was cleared, and a second one
\* is now in flight; of the three submit events one sent nothing
C20_Witness ==
  /\ client.page = "contact"
  /\ client.submitBtn
  /\ client.events = 3
  /\ client.accepted = 2
  /\ client.posts = 1
  /\ client.last.result = "rejected"
  /\ client.isSubmitting
  /\ client.disabled
  /\ DOMAIN client.tasks = {2}
  /\ client.tasks[2].inflight = 1

\* this step is an input event on #search-input
InputStep == client'.inputs = client.inputs + 1

\* this step is a run of the timer callback, that is of handleSearchChange
RunStep == client'.runs = client.runs + 1

\* this step writes STATE.currentFilters.search
SearchWritten == client'.State.currentFilters.search # client.State.currentFilters.search

\* the input event of this step begins a burst: the previous input event is
\* DEBOUNCE_DELAY old or older
NewBurst == InputStep /\ client.inputs >= 1 /\ now - client.last.time >= DEBOUNCE_DELAY

\* C21 as stated: handleSearchChange runs once for each burst of input
\* events less than DEBOUNCE_DELAY apart, exactly DEBOUNCE_DELAY after the
\* last event of the burst and with the value of that event (which the
\* listener has lower-cased); STATE.currentFilters.search is written by
\* these runs only.
C21_DebounceOncePerBurst ==
  /\ [][RunStep =>
          /\ now = client.last.time + DEBOUNCE_DELAY
          /\ client.ranFor # client.inputs
          /\ client'.State.currentFilters.search = toLowerCase(client.last.value)]_vars
  /\ [][NewBurst => client.ranFor = client.inputs]_vars
  /\ [][SearchWritten => RunStep]_vars
  /\ (client.timer.pending ~> client.ranFor = client.inputs)

\* C21 amended: the timer callback runs when the event loop takes it, which
\* is DEBOUNCE_DELAY after the last event or later, and an input event
\* handled before it cancels it: handleSearchChange runs at most once for a
\* burst, not before DEBOUNCE_DELAY after its last event, with the value of
\* that event, and exactly once unless a later input event is handled
\* before the callback (a pending timer leads to the run for the latest
\* input event); no other value is written.
C21_DebounceAtMostOncePerBurst ==
  /\ [][RunStep =>
          /\ now >= client.last.time + DEBOUNCE_DELAY
          /\ client.ranFor # client.inputs
          /\ client'.State.currentFilters.search = toLowerCase(client.last.value)]_vars
  /\ [](client.page = "games" => (client.timer.pending <=> client.ranFor # client.inputs))
  /\ [][SearchWritten => RunStep]_vars
  /\ (client.timer.pending ~> client.ranFor = client.inputs)

\* two bursts have had their run: the first of two events, "x a" and then
\* "A" less than DEBOUNCE_DELAY later, the second of one event, "A",
\* which has been written in lower case
C21_Witness ==
  /\ client.page = "games"
  /\ client.rev = "current"
  /\ client.inputs = 3
  /\ client.runs = 2
  /\ client.ranFor = 3
  /\ client.last = [time |-> 2 * DEBOUNCE_DELAY - 1, value |-> <<"A">>]
  /\ client.State.currentFilters.search = <<"a">>
  /\ now = 3 * DEBOUNCE_DELAY - 1

\* C22: from a run of resetFilters until the next input on a filter control
\* (search box, chip, status select), STATE.currentFilters is {search: '',
\* genre: 'all', status: 'all'} and STATE.filteredGames is the whole of
\* STATE.games, sorted, also when a debounced search was pending at the
\* reset.
C22_ResetHolds ==
  (client.page = "games" /\ client.clean) =>
    /\ client.State.currentFilters = DefaultFilters
    /\ client.State.filteredGames = Games_sorted(client.rev, client.State.games)

\* the game satisfies the three filters of the page
PassesFilters(game, filters) ==
  /\ \/ filters.search = <<>>
     \/ ContainsIgnoringCase(game.title, filters.search)
     \/ ContainsIgnoringCase(game.description, filters.search)
  /\ filters.genre = All \/ game.genre = filters.genre
  /\ filters.status = All \/ game.status = filters.status

\* the places of STATE.games at which the game stands
PlacesOf(game, games) == {i \in 1..Len(games) : games[i] = game}

\* C23: after every handler of the current revision, STATE.filteredGames
\* holds exactly the games of STATE.games that pass the search, genre and
\* status filters in force, each once, ordered by status rank, then by
\* priority, then as in STATE.games.
C23_FilteredGames ==
  (client.page = "games" /\ client.rev = "current") =>
    LET games == client.State.games
        shown == client.State.filteredGames
        filters == client.State.currentFilters
    IN /\ \A i \in 1..Len(shown) :
            shown[i] \in Range(games) /\ PassesFilters(shown[i], filters)
       /\ \A i \in 1..Len(games) :
            PassesFilters(games[i], filters) => Cardinality(PlacesOf(games[i], shown)) = 1
       /\ \A i, j \in 1..Len(shown) :
            i < j =>
              \/ SpecRank(shown[i]) < SpecRank(shown[j])
              \/ /\ SpecRank(shown[i]) = SpecRank(shown[j])
                 /\ shown[i].priority < shown[j].priority
              \/ /\ SpecRank(shown[i]) = SpecRank(shown[j])
                 /\ shown[i].priority = shown[j].priority
                 /\ \A a \in PlacesOf(shown[i], games), b \in PlacesOf(shown[j], games) : a < b

\* four games are loaded, the search for "a" and the Arcade chip leave two
\* of them, and the sort has put the Live one before the In Dev one
C23_Witness ==
  /\ client.page = "games"
  /\ client.rev = "current"
  /\ client.State.games = <<GamePool[4], GamePool[3], GamePool[2], GamePool[1]>>
  /\ client.State.currentFilters = [search |-> <<"a">>, genre |-> Arcade, status |-> All]
  /\ client.State.filteredGames = <<GamePool[1], GamePool[3]>>
  /\ ~client.timer.pending

C25_SameOrder ==
  call.fn # "none" =>
    /\ call.ret = Games_sortGames(call.arg)
    /\ call.ret = GamesService_sortGames(call.arg)

\* the page has sorted an array that holds an empty status and a status in
\* capitals with a trailing blank, and the order has changed
C25_Witness ==
  /\ call.fn = "Games.sortGames"
  /\ Len(call.arg) = MaxSortLen
  /\ call.arg[1].status = <<>>
  /\ call.arg[2].status = InDevLoose
  /\ call.arg[3].status = LiveLoud
  /\ call.ret = <<call.arg[3], call.arg[2], call.arg[1]>>

\* C26: every pair of an email and a message that passes validateEmail and
\* validateMessage of the form passes validateContactForm of the server: the
\* body the form sends is never answered 400 by the validation.
C26_ClientImpliesServer ==
  call.fn = "validateContactForm" =>
    \A k \in 1..Len(call.ret) :
      ~("status" \in DOMAIN call.ret[k] /\ call.ret[k].status = 400)

\* an event of the given kind has just been handled on a page that has the
\* hamburger and the panel
Handled(name) ==
  /\ client.page = "nav"
  /\ client.listening
  /\ client'.events = client.events + 1
  /\ client'.last = name

MenuConsistent ==
  client.page = "nav" =>
    /\ client.mobileMenuOpen <=> client.panelOpen
    /\ client.mobileMenuOpen <=> client.hamburgerActive
    /\ client.mobileMenuOpen <=> client.bodyNavOpen

\* the link just clicked has a section of the document to go to
Navigates == Len(client'.frames) = Len(client.frames) + 1

C28_OpenPanelStaysVisible ==
  (client.page = "menu" /\ client.opened /\ client.hamburgerActive) => ~client.hidden

====
